---- MODULE Spec2Model ----
(***************************************************************************)
(* Model of the chat turn handler (POST /api/chatbot, app/api/chatbot/     *)
(* route.ts) and of the context editing policy (determineEditStrategies,   *)
(* lib/acontext-integration.ts).                                           *)
(*                                                                         *)
(* Spec       : one request running through the POST handler.  Every       *)
(*              action is one await-to-await segment of the handler.       *)
(* SpecPolicy : determineEditStrategies applied to bounded inputs.         *)
(***************************************************************************)
EXTENDS Integers, Sequences, FiniteSets, TLC

\* ------------------------------------------------------------------------
\* Bounds of the model
\* ------------------------------------------------------------------------
MaxEvents == 3
MaxToolCalls == 2
MaxAttachments == 1
MaxHistLen == 6
MaxCallsPerMsg == 10

\* ------------------------------------------------------------------------
\* Program constants
\* ------------------------------------------------------------------------
MaxMessageLength == 100000
DefaultTokenLimitThreshold == 80000
DefaultTokenLimitTarget == 70000
DefaultToolResultThreshold == 5
DefaultToolCallThreshold == 10
MinKeepRecent == 3

VARIABLES
  req,            \* the request: auth outcome, body, existing history
  pc,             \* position of the POST handler
  status,         \* HTTP status of the response, 0 while none was returned
  responseBody,   \* JSON body of a non-streaming 200 response
  sessionResolved,\* getOrCreateSession was called
  uploads,        \* attachments written to the session's disk
  existingMessages, \* history as loaded for this turn
  messages,       \* message list assembled for the model
  log,            \* durable message log of the session
  userStore,      \* outcome of storing the user message
  asstStore,      \* outcome of storing the assistant message
  modelInvoked,   \* chatCompletion / chatCompletionStream was called
  produced,       \* events yielded so far by chatCompletionStream
  genOutcome,     \* how the generator ended
  delivered,      \* SSE events enqueued on the controller
  closed,         \* controller.close() was called
  completion,     \* value chatCompletion resolved with
  deadlineExceeded, \* REQUEST_TIMEOUT_MS elapsed during model/tool work
  pTokens,        \* policy input: token counts
  pConfig,        \* policy input: configuration
  pHist,          \* policy input: message history
  pResult,        \* policy output
  pFetch,         \* last getAcontextTokenCounts call feeding the policy
  aClient,        \* store adapter: getAcontextClient() returns a client
  aLog,           \* store adapter: the provider's message log of the session
  aStore,         \* store adapter: outcome of the last storeMessageInAcontext
  aStrategies,    \* store adapter: strategies decided for the next read
  aView,          \* store adapter: result of the last loadMessagesFromAcontext
  rClient,        \* session resolve: getAcontextClient() returns a client
  rRow,           \* session resolve: acontext_session_id of the chat_sessions row
  rDurable,       \* session resolve: number of sessions created at the provider
  rCalls,         \* session resolve: the running getOrCreateAcontextSession calls
  lClient,        \* session lifecycle: getAcontextClient() returns a client
  lDurable,       \* session lifecycle: sessions created at the provider, by owner
  lRows,          \* session lifecycle: rows of chat_sessions
  lCreate,        \* session lifecycle: last createAcontextSessionDirectly call
  lDelete,        \* session lifecycle: last deleteAcontextSession call
  gReq,           \* message listing: the GET request and its lookups
  gPc,            \* message listing: position of the GET handler
  gResp,          \* message listing: the response
  gReads,         \* message listing: reads made at the provider
  uIn,            \* user message assembly: message text and attachments
  uOut,           \* user message assembly: the content built
  tIn,            \* tool filter: CHATBOT_ENABLE_TOOLS and body.enabledToolNames
  tOut,           \* tool filter: filteredTools once computed
  sClient,        \* user space: getAcontextClient() returns a client
  sRows,          \* user space: space ids in the rows of user_acontext_spaces for the user
  sSpaces,        \* user space: number of Spaces created at the provider
  sCalls,         \* user space: the running getOrCreateUserSpaceId calls
  dDisks,         \* attachment upload: disks at the provider, each with the session it was created for (0: none)
  dSess,          \* attachment upload: per session, whether it exists and its acontextDiskId
  dUploads,       \* attachment upload: artifacts written, by session and disk
  kLog,           \* concurrent turns: the durable message log of the session
  kTurns,         \* concurrent turns: position and user-write outcome of each turn
  xIn,            \* experience search: client configured, user and query of the call
  xRun,           \* experience search: position, whether a search ran, what the provider raised
  xOut,           \* experience search: what runExperienceSearch returned or threw
  eIn,            \* presentation export: body.urls
  eRun,           \* presentation export: position of the handler and what each fetch gave
  eResp           \* presentation export: the response

turnVars == <<req, pc, status, responseBody, sessionResolved, uploads,
              existingMessages, messages, log, userStore, asstStore,
              modelInvoked, produced, genOutcome, delivered, closed,
              completion, deadlineExceeded>>
policyVars == <<pTokens, pConfig, pHist, pResult, pFetch>>
storeVars == <<aClient, aLog, aStore, aStrategies, aView>>
resolveVars == <<rClient, rRow, rDurable, rCalls>>
lifeVars == <<lClient, lDurable, lRows, lCreate, lDelete>>
listVars == <<gReq, gPc, gResp, gReads>>
composeVars == <<uIn, uOut>>
toolsVars == <<tIn, tOut>>
spaceVars == <<sClient, sRows, sSpaces, sCalls>>
diskVars == <<dDisks, dSess, dUploads>>
pairVars == <<kLog, kTurns>>
searchVars == <<xIn, xRun, xOut>>
exportVars == <<eIn, eRun, eResp>>
nonTurnVars == <<policyVars, storeVars, resolveVars, lifeVars, listVars, composeVars, toolsVars, spaceVars, diskVars, pairVars, searchVars, exportVars>>
nonPolicyVars == <<turnVars, storeVars, resolveVars, lifeVars, listVars, composeVars, toolsVars, spaceVars, diskVars, pairVars, searchVars, exportVars>>
nonStoreVars == <<turnVars, policyVars, resolveVars, lifeVars, listVars, composeVars, toolsVars, spaceVars, diskVars, pairVars, searchVars, exportVars>>
nonResolveVars == <<turnVars, policyVars, storeVars, lifeVars, listVars, composeVars, toolsVars, spaceVars, diskVars, pairVars, searchVars, exportVars>>
nonLifeVars == <<turnVars, policyVars, storeVars, resolveVars, listVars, composeVars, toolsVars, spaceVars, diskVars, pairVars, searchVars, exportVars>>
nonListVars == <<turnVars, policyVars, storeVars, resolveVars, lifeVars, composeVars, toolsVars, spaceVars, diskVars, pairVars, searchVars, exportVars>>
nonComposeVars == <<turnVars, policyVars, storeVars, resolveVars, lifeVars, listVars, toolsVars, spaceVars, diskVars, pairVars, searchVars, exportVars>>
nonToolsVars == <<turnVars, policyVars, storeVars, resolveVars, lifeVars, listVars, composeVars, spaceVars, diskVars, pairVars, searchVars, exportVars>>
nonSpaceVars == <<turnVars, policyVars, storeVars, resolveVars, lifeVars, listVars, composeVars, toolsVars, diskVars, pairVars, searchVars, exportVars>>
nonDiskVars == <<turnVars, policyVars, storeVars, resolveVars, lifeVars, listVars, composeVars, toolsVars, spaceVars, pairVars, searchVars, exportVars>>
nonPairVars == <<turnVars, policyVars, storeVars, resolveVars, lifeVars, listVars, composeVars, toolsVars, spaceVars, diskVars, searchVars, exportVars>>
nonSearchVars == <<turnVars, policyVars, storeVars, resolveVars, lifeVars, listVars, composeVars, toolsVars, spaceVars, diskVars, pairVars, exportVars>>
nonExportVars == <<turnVars, policyVars, storeVars, resolveVars, lifeVars, listVars, composeVars, toolsVars, spaceVars, diskVars, pairVars, searchVars>>
vars == <<req, pc, status, responseBody, sessionResolved, uploads,
          existingMessages, messages, log, userStore, asstStore,
          modelInvoked, produced, genOutcome, delivered, closed,
          completion, deadlineExceeded, pTokens, pConfig, pHist, pResult, pFetch,
          aClient, aLog, aStore, aStrategies, aView,
          rClient, rRow, rDurable, rCalls,
          lClient, lDurable, lRows, lCreate, lDelete,
          gReq, gPc, gResp, gReads,
          uIn, uOut,
          tIn, tOut,
          sClient, sRows, sSpaces, sCalls,
          dDisks, dSess, dUploads,
          kLog, kTurns,
          xIn, xRun, xOut,
          eIn, eRun, eResp>>

\* ------------------------------------------------------------------------
\* Helpers
\* ------------------------------------------------------------------------
SeqsUpTo(S, n) == UNION {[1..k -> S] : k \in 0..n}

Max(a, b) == IF a >= b THEN a ELSE b

NoValue == [none |-> TRUE]

\* ------------------------------------------------------------------------
\* Requests
\* ------------------------------------------------------------------------
\* body.message: absent, not a string, or a string of a given length that
\* is blank (only whitespace) or not.
MessageValues ==
  { [kind |-> "missing", len |-> 0, blank |-> TRUE],
    [kind |-> "nonstring", len |-> 1, blank |-> FALSE],
    [kind |-> "string", len |-> 0, blank |-> TRUE],
    [kind |-> "string", len |-> 1, blank |-> TRUE],
    [kind |-> "string", len |-> MaxMessageLength, blank |-> FALSE],
    [kind |-> "string", len |-> MaxMessageLength + 1, blank |-> FALSE] }

AttachmentKinds == {"image", "file"}

\* Message content: a string, or an array of parts (Vision format).  A part
\* is a text or an image_url; ref names what it carries: 0 the text of the
\* message, i > 0 the i-th attachment.
TextContent == [form |-> "string", parts |-> <<[type |-> "text", ref |-> 0]>>]

\* Entries of the durable log.  turn is 0 for messages of earlier turns and
\* 1 for messages written by the modelled turn.
\* The earlier user message carried an image (Vision format).
OldUserContent ==
  [form |-> "array", parts |-> <<[type |-> "text", ref |-> 0], [type |-> "image_url", ref |-> 1]>>]
OldUserMessage == [role |-> "user", content |-> OldUserContent, toolCalls |-> <<>>, turn |-> 0]
OldAssistantMessage == [role |-> "assistant", content |-> TextContent, toolCalls |-> <<>>, turn |-> 0]

Histories == { <<>>, <<OldUserMessage, OldAssistantMessage>> }

Requests ==
  [ authOk : BOOLEAN,
    bodyOk : BOOLEAN,
    message : MessageValues,
    configOk : BOOLEAN,
    stream : BOOLEAN,
    attachments : SeqsUpTo(AttachmentKinds, MaxAttachments),
    history : Histories ]

\* ------------------------------------------------------------------------
\* Initial state
\* ------------------------------------------------------------------------
InitTurn ==
  /\ req \in Requests
  /\ pc = "auth"
  /\ status = 0
  /\ responseBody = NoValue
  /\ sessionResolved = FALSE
  /\ uploads = <<>>
  /\ existingMessages = <<>>
  /\ messages = <<>>
  /\ log = req.history
  /\ userStore = "none"
  /\ asstStore = "none"
  /\ modelInvoked = FALSE
  /\ produced = <<>>
  /\ genOutcome = "none"
  /\ delivered = <<>>
  /\ closed = FALSE
  /\ completion = NoValue
  /\ deadlineExceeded = FALSE

IdleTurn ==
  /\ req = [authOk |-> FALSE, bodyOk |-> FALSE, message |-> [kind |-> "missing", len |-> 0, blank |-> TRUE],
            configOk |-> FALSE, stream |-> FALSE, attachments |-> <<>>, history |-> <<>>]
  /\ pc = "idle"
  /\ status = 0
  /\ responseBody = NoValue
  /\ sessionResolved = FALSE
  /\ uploads = <<>>
  /\ existingMessages = <<>>
  /\ messages = <<>>
  /\ log = <<>>
  /\ userStore = "none"
  /\ asstStore = "none"
  /\ modelInvoked = FALSE
  /\ produced = <<>>
  /\ genOutcome = "none"
  /\ delivered = <<>>
  /\ closed = FALSE
  /\ completion = NoValue
  /\ deadlineExceeded = FALSE

NotComputed == [computed |-> FALSE, strategies |-> <<>>]

NotFetched == [called |-> FALSE, client |-> FALSE, outcome |-> "none", raised |-> FALSE]

IdlePolicy ==
  /\ pTokens = <<>>
  /\ pConfig = [tokenLimitThreshold |-> <<>>, tokenLimitTarget |-> <<>>,
                toolResultThreshold |-> <<>>, toolCallThreshold |-> <<>>]
  /\ pHist = <<>>
  /\ pResult = NotComputed
  /\ pFetch = NotFetched

NotStored == [result |-> "none", accepted |-> FALSE]

NotLoaded == [loaded |-> FALSE, ok |-> FALSE, strategies |-> <<>>, items |-> <<>>]

IdleStore ==
  /\ aClient = FALSE
  /\ aLog = <<>>
  /\ aStore = NotStored
  /\ aStrategies = NotComputed
  /\ aView = NotLoaded

IdleResolve ==
  /\ rClient = FALSE
  /\ rRow = <<>>
  /\ rDurable = 0
  /\ rCalls = <<>>

NoCall == [called |-> FALSE, arg |-> 0, ret |-> <<>>, dbError |-> FALSE]

IdleLife ==
  /\ lClient = FALSE
  /\ lDurable = <<>>
  /\ lRows = {}
  /\ lCreate = NoCall
  /\ lDelete = NoCall

NoListRequest == [caller |-> 0, authError |-> FALSE, id |-> 0, queryError |-> FALSE]
NoResponse == [status |-> 0, messages |-> <<>>, tokenCounts |-> <<>>]

IdleList ==
  /\ gReq = NoListRequest
  /\ gPc = "idle"
  /\ gResp = NoResponse
  /\ gReads = {}

NoCompose == [message |-> [kind |-> "missing", len |-> 0, blank |-> TRUE], atts |-> <<>>]

IdleCompose ==
  /\ uIn = NoCompose
  /\ uOut = <<>>

NoToolRequest == [toolsEnabled |-> FALSE, enabledToolNames |-> <<>>]

IdleTools ==
  /\ tIn = NoToolRequest
  /\ tOut = <<>>

IdleSpace ==
  /\ sClient = FALSE
  /\ sRows = {}
  /\ sSpaces = 0
  /\ sCalls = <<>>

IdleDisk ==
  /\ dDisks = <<>>
  /\ dSess = <<>>
  /\ dUploads = {}

IdlePair ==
  /\ kLog = <<>>
  /\ kTurns = <<>>

NoSearchCall == [client |-> FALSE, userId |-> 0, query |-> "missing"]
SearchIdle == [pc |-> "idle", searched |-> FALSE, raised |-> ""]
NoSearchOutcome == [kind |-> "none", message |-> "", skills |-> <<>>, count |-> 0]

IdleSearch ==
  /\ xIn = NoSearchCall
  /\ xRun = SearchIdle
  /\ xOut = NoSearchOutcome

ExportIdle == [pc |-> "idle", outcomes |-> <<>>, slides |-> <<>>, errors |-> <<>>, written |-> FALSE]
NoExport == [status |-> 0, slides |-> <<>>, xErrors |-> <<>>]

IdleExport ==
  /\ eIn = <<>>
  /\ eRun = ExportIdle
  /\ eResp = NoExport

Init == InitTurn /\ IdlePolicy /\ IdleStore /\ IdleResolve /\ IdleLife /\ IdleList /\ IdleCompose /\ IdleTools /\ IdleSpace /\ IdleDisk /\ IdlePair /\ IdleSearch /\ IdleExport

\* ------------------------------------------------------------------------
\* POST handler: authentication and validation
\* ------------------------------------------------------------------------
\* return NextResponse.json(..., {status})
Respond(code) ==
  /\ status' = code
  /\ pc' = "done"

Authenticate ==
  /\ pc = "auth"
  /\ IF ~req.authOk
       THEN Respond(401)
       ELSE pc' = "parse" /\ status' = status
  /\ UNCHANGED <<req, responseBody, sessionResolved, uploads,
                 existingMessages, messages, log, userStore, asstStore,
                 modelInvoked, produced, genOutcome, delivered, closed,
                 completion, deadlineExceeded>>
  /\ UNCHANGED nonTurnVars

\* !body.message || typeof body.message !== "string"
MessageMissingOrNotString(m) ==
  \/ m.kind # "string"
  \/ m.len = 0

\* body.message.length > 100000
MessageTooLong_OffByOne(m) == m.len > MaxMessageLength + 1

MessageTooLong(m) == m.len > MaxMessageLength

ParseAndValidate ==
  /\ pc = "parse"
  /\ IF ~req.bodyOk
       THEN Respond(400)
       ELSE IF MessageMissingOrNotString(req.message)
         THEN Respond(400)
         ELSE IF MessageTooLong(req.message)
           THEN Respond(400)
           ELSE IF ~req.configOk
             THEN Respond(500)
             ELSE pc' = "session" /\ status' = status
  /\ UNCHANGED <<req, responseBody, sessionResolved, uploads,
                 existingMessages, messages, log, userStore, asstStore,
                 modelInvoked, produced, genOutcome, delivered, closed,
                 completion, deadlineExceeded>>
  /\ UNCHANGED nonTurnVars


\* ------------------------------------------------------------------------
\* POST handler: session, attachments, history, message list
\* ------------------------------------------------------------------------
\* const session = await getOrCreateSession(user.id, body.sessionId); a
\* throw is caught by the outer catch and answered with 500.
ResolveSession ==
  /\ pc = "session"
  /\ \E ok \in BOOLEAN :
       IF ok
         THEN /\ sessionResolved' = TRUE
              /\ pc' = IF Len(req.attachments) > 0 THEN "upload" ELSE "load"
              /\ status' = status
         ELSE /\ sessionResolved' = TRUE
              /\ Respond(500)
  /\ UNCHANGED <<req, responseBody, uploads,
                 existingMessages, messages, log, userStore, asstStore,
                 modelInvoked, produced, genOutcome, delivered, closed,
                 completion, deadlineExceeded>>
  /\ UNCHANGED nonTurnVars

\* One iteration of the attachment loop: uploadFileToAcontext returns the
\* artifact path, or null when the provider is missing or the upload fails;
\* attachmentInfo receives the attachment in both cases.
UploadAttachment ==
  /\ pc = "upload"
  /\ \E ok \in BOOLEAN : uploads' = Append(uploads, ok)
  /\ pc' = IF Len(uploads) + 1 < Len(req.attachments) THEN "upload" ELSE "load"
  /\ UNCHANGED <<req, status, responseBody, sessionResolved,
                 existingMessages, messages, log, userStore, asstStore,
                 modelInvoked, produced, genOutcome, delivered, closed,
                 completion, deadlineExceeded>>
  /\ UNCHANGED nonTurnVars

\* attachmentInfo after the loop: every attachment of the request, in order.
AttachmentInfo == req.attachments

SystemMessage == [role |-> "system", content |-> TextContent]

\* att.mimeType.startsWith("image/")
IsImage(att) == att = "image"

\* Content of the new user message (route.ts 351-415).
UserContent(message, atts) ==
  IF Len(atts) > 0
    THEN IF \E i \in 1..Len(atts) : IsImage(atts[i])
      THEN [form |-> "array",
            parts |-> (IF ~message.blank THEN <<[type |-> "text", ref |-> 0]>> ELSE <<>>)
                      \o [i \in 1..Len(atts) |->
                            IF IsImage(atts[i])
                              THEN [type |-> "image_url", ref |-> i]
                              ELSE [type |-> "text", ref |-> i]]]
      ELSE [form |-> "string",
            parts |-> <<[type |-> "text", ref |-> 0]>>
                      \o [i \in 1..Len(atts) |-> [type |-> "text", ref |-> i]]]
    ELSE TextContent

\* messages: system prompt, existing messages, new user message.
AssembleMessages_Flattened(existing, message, atts) ==
  <<SystemMessage>>
  \o [i \in 1..Len(existing) |-> [role |-> existing[i].role, content |-> TextContent]]
  \o <<[role |-> "user", content |-> UserContent(message, atts)]>>

AssembleMessages(existing, message, atts) ==
  <<SystemMessage>>
  \o [i \in 1..Len(existing) |-> [role |-> existing[i].role, content |-> existing[i].content]]
  \o <<[role |-> "user", content |-> UserContent(message, atts)]>>

\* const existingMessages = await loadMessages(session.id); the loader
\* returns [] when the provider is missing or the read fails.  The message
\* list is assembled in the same segment.
LoadHistory ==
  /\ pc = "load"
  /\ \E view \in {log, <<>>} :
       /\ existingMessages' = view
       /\ messages' = AssembleMessages(view, req.message, AttachmentInfo)
  /\ pc' = "storeUser"
  /\ UNCHANGED <<req, status, responseBody, sessionResolved, uploads,
                 log, userStore, asstStore,
                 modelInvoked, produced, genOutcome, delivered, closed,
                 completion, deadlineExceeded>>
  /\ UNCHANGED nonTurnVars

\* storeMessageInAcontext: true and the blob {role, content} appended when
\* the provider accepts the write; false and nothing written otherwise.
StoredBlob(role, content) ==
  [role |-> role, content |-> content, toolCalls |-> <<>>, turn |-> 1]

\* await storeMessageInAcontext(acontextSessionId, "user", lastMessage.content)
StoreUserMessage_Skipped ==
  /\ pc = "storeUser"
  /\ userStore' = userStore
  /\ log' = log
  /\ pc' = "invoke"
  /\ UNCHANGED <<req, status, responseBody, sessionResolved, uploads,
                 existingMessages, messages, asstStore,
                 modelInvoked, produced, genOutcome, delivered, closed,
                 completion, deadlineExceeded>>
  /\ UNCHANGED nonTurnVars

StoreUserMessage ==
  /\ pc = "storeUser"
  /\ \E ok \in BOOLEAN :
       /\ userStore' = IF ok THEN "ok" ELSE "failed"
       /\ log' = IF ok
                   THEN Append(log, StoredBlob("user", messages[Len(messages)].content))
                   ELSE log
  /\ pc' = "invoke"
  /\ UNCHANGED <<req, status, responseBody, sessionResolved, uploads,
                 existingMessages, messages, asstStore,
                 modelInvoked, produced, genOutcome, delivered, closed,
                 completion, deadlineExceeded>>
  /\ UNCHANGED nonTurnVars

\* shouldStream: chatCompletionStream(...) is called inside start(controller)
\* and the SSE response is returned; otherwise chatCompletion(...) is called
\* and raced against the REQUEST_TIMEOUT_MS timer.
InvokeModel ==
  /\ pc = "invoke"
  /\ modelInvoked' = TRUE
  /\ IF req.stream
       THEN pc' = "pull" /\ status' = 200 /\ genOutcome' = "running"
       ELSE pc' = "race" /\ status' = status /\ genOutcome' = genOutcome
  /\ UNCHANGED <<req, responseBody, sessionResolved, uploads,
                 existingMessages, messages, log, userStore, asstStore,
                 produced, delivered, closed,
                 completion, deadlineExceeded>>
  /\ UNCHANGED nonTurnVars


\* ------------------------------------------------------------------------
\* Streaming path
\* ------------------------------------------------------------------------
ToolEventTypes == {"tool_call_start", "tool_call_step", "tool_call_complete", "tool_call_error"}

Event(type, id, text, toolCalls) ==
  [type |-> type, id |-> id, text |-> text, toolCalls |-> toolCalls]

\* Ids of the tool calls started so far, in starting order without repeats.
RECURSIVE StartedToolCalls(_)
StartedToolCalls(evs) ==
  IF evs = <<>> THEN <<>>
  ELSE LET init == StartedToolCalls(SubSeq(evs, 1, Len(evs) - 1))
           e == evs[Len(evs)]
       IN IF e.type = "tool_call_start" /\ ~(\E i \in 1..Len(init) : init[i] = e.id)
            THEN Append(init, e.id)
            ELSE init

\* Events the generator of chatCompletionStream may yield next: a text
\* chunk, an event of some tool call, or the final message with the full
\* tool call list of the turn.
NonFinalEvents ==
  {Event("message", 0, "chunk", <<>>)}
  \cup {Event(t, id, "", <<>>) : t \in ToolEventTypes, id \in 1..MaxToolCalls}

FinalEvent(evs) == Event("final_message", 0, "answer", StartedToolCalls(evs))

\* sendEvent(event, data): the SSE event the if-chain of the loop enqueues
\* for a generator event that is not final_message.
SseEventFor_DropSteps(e) ==
  IF e.type = "tool_call_step" THEN <<>>
  ELSE <<[type |-> e.type, id |-> e.id, text |-> e.text, toolCalls |-> e.toolCalls, tokenCounts |-> "none"]>>

SseEventFor(e) ==
  IF e.type \in {"message"} \cup ToolEventTypes
    THEN <<[type |-> e.type, id |-> e.id, text |-> e.text, toolCalls |-> e.toolCalls, tokenCounts |-> "none"]>>
    ELSE <<>>

SseError == [type |-> "error", id |-> 0, text |-> "", toolCalls |-> <<>>, tokenCounts |-> "none"]

\* The generator yields e, which is not final_message: it is forwarded and
\* the loop awaits the next event.
ForwardEvent_ErrorAborts(e) ==
  /\ pc = "pull"
  /\ Len(produced) < MaxEvents
  /\ produced' = Append(produced, e)
  /\ IF e.type = "tool_call_error"
       THEN /\ delivered' = delivered \o SseEventFor(e) \o <<SseError>>
            /\ closed' = TRUE
            /\ pc' = "done"
       ELSE /\ delivered' = delivered \o SseEventFor(e)
            /\ closed' = closed
            /\ pc' = pc
  /\ UNCHANGED <<req, status, responseBody, sessionResolved, uploads,
                 existingMessages, messages, log, userStore, asstStore,
                 modelInvoked, genOutcome,
                 completion, deadlineExceeded>>
  /\ UNCHANGED nonTurnVars

ForwardEvent(e) ==
  /\ pc = "pull"
  /\ Len(produced) < MaxEvents
  /\ produced' = Append(produced, e)
  /\ delivered' = delivered \o SseEventFor(e)
  /\ UNCHANGED <<req, pc, status, responseBody, sessionResolved, uploads,
                 existingMessages, messages, log, userStore, asstStore,
                 modelInvoked, genOutcome, closed,
                 completion, deadlineExceeded>>
  /\ UNCHANGED nonTurnVars

StreamEvent == \E e \in NonFinalEvents : ForwardEvent(e)

\* The generator yields final_message: the handler starts storing the
\* assistant message.
StreamFinal ==
  /\ pc = "pull"
  /\ Len(produced) < MaxEvents
  /\ produced' = Append(produced, FinalEvent(produced))
  /\ pc' = "storeAsst"
  /\ UNCHANGED <<req, status, responseBody, sessionResolved, uploads,
                 existingMessages, messages, log, userStore, asstStore,
                 modelInvoked, genOutcome, delivered, closed,
                 completion, deadlineExceeded>>
  /\ UNCHANGED nonTurnVars

\* The generator throws (model transport error, ...): the catch block sends
\* an error event and closes the stream.
StreamThrows ==
  /\ pc = "pull"
  /\ genOutcome' = "threw"
  /\ delivered' = Append(delivered, SseError)
  /\ closed' = TRUE
  /\ pc' = "done"
  /\ UNCHANGED <<req, status, responseBody, sessionResolved, uploads,
                 existingMessages, messages, log, userStore, asstStore,
                 modelInvoked, produced,
                 completion, deadlineExceeded>>
  /\ UNCHANGED nonTurnVars

\* The generator returns without final_message: the loop ends, "Stream
\* completed" is logged and start() returns.
StreamEnds ==
  /\ pc = "pull"
  /\ genOutcome' = "returned"
  /\ pc' = "done"
  /\ UNCHANGED <<req, status, responseBody, sessionResolved, uploads,
                 existingMessages, messages, log, userStore, asstStore,
                 modelInvoked, produced, delivered, closed,
                 completion, deadlineExceeded>>
  /\ UNCHANGED nonTurnVars

\* The text and tool calls of the answer being finalized.
Answer ==
  IF req.stream THEN produced[Len(produced)] ELSE completion

\* await storeMessageInAcontext(acontextSessionId, "assistant", message)
StoreAssistantMessage_FailureAborts ==
  /\ pc = "storeAsst"
  /\ \E ok \in BOOLEAN :
       /\ asstStore' = IF ok THEN "ok" ELSE "failed"
       /\ log' = IF ok THEN Append(log, StoredBlob("assistant", TextContent)) ELSE log
       /\ IF ok
            THEN pc' = "tokenCounts" /\ UNCHANGED <<status, delivered, closed>>
            ELSE IF req.stream
              THEN /\ delivered' = Append(delivered, SseError)
                   /\ closed' = TRUE
                   /\ pc' = "done"
                   /\ status' = status
              ELSE Respond(500) /\ UNCHANGED <<delivered, closed>>
  /\ UNCHANGED <<req, responseBody, sessionResolved, uploads,
                 existingMessages, messages, userStore,
                 modelInvoked, produced, genOutcome,
                 completion, deadlineExceeded>>
  /\ UNCHANGED nonTurnVars

StoreAssistantMessage ==
  /\ pc = "storeAsst"
  /\ \E ok \in BOOLEAN :
       /\ asstStore' = IF ok THEN "ok" ELSE "failed"
       /\ log' = IF ok THEN Append(log, StoredBlob("assistant", TextContent)) ELSE log
  /\ pc' = "tokenCounts"
  /\ UNCHANGED <<req, status, responseBody, sessionResolved, uploads,
                 existingMessages, messages, userStore,
                 modelInvoked, produced, genOutcome, delivered, closed,
                 completion, deadlineExceeded>>
  /\ UNCHANGED nonTurnVars

\* Payload of final_message / of the JSON response.
FinalPayload(answer, counts) ==
  [type |-> "final_message", id |-> 0, text |-> answer.text,
   toolCalls |-> answer.toolCalls, tokenCounts |-> counts]

\* const counts = await getAcontextTokenCounts(...), then on the streaming
\* path sendEvent("final_message", ...); controller.close(); return, and on
\* the non-streaming path return NextResponse.json(response).
SendFinal_NoReturn ==
  /\ pc = "tokenCounts"
  /\ \E counts \in {"none", "some"} :
       IF req.stream
         THEN /\ delivered' = Append(delivered, FinalPayload(Answer, counts))
              /\ closed' = FALSE
              /\ pc' = "pull"
              /\ genOutcome' = genOutcome
              /\ UNCHANGED <<status, responseBody>>
         ELSE /\ responseBody' = FinalPayload(Answer, counts)
              /\ Respond(200)
              /\ UNCHANGED <<delivered, closed, genOutcome>>
  /\ UNCHANGED <<req, sessionResolved, uploads,
                 existingMessages, messages, log, userStore, asstStore,
                 modelInvoked, produced,
                 completion, deadlineExceeded>>
  /\ UNCHANGED nonTurnVars

SendFinal ==
  /\ pc = "tokenCounts"
  /\ \E counts \in {"none", "some"} :
       IF req.stream
         THEN /\ delivered' = Append(delivered, FinalPayload(Answer, counts))
              /\ closed' = TRUE
              /\ pc' = "done"
              /\ genOutcome' = "final"
              /\ UNCHANGED <<status, responseBody>>
         ELSE /\ responseBody' = FinalPayload(Answer, counts)
              /\ Respond(200)
              /\ UNCHANGED <<delivered, closed, genOutcome>>
  /\ UNCHANGED <<req, sessionResolved, uploads,
                 existingMessages, messages, log, userStore, asstStore,
                 modelInvoked, produced,
                 completion, deadlineExceeded>>
  /\ UNCHANGED nonTurnVars

\* Time passes REQUEST_TIMEOUT_MS while the streaming loop is waiting for
\* the generator; the streaming branch arms no timer.
StreamDeadlinePasses ==
  /\ pc = "pull"
  /\ ~deadlineExceeded
  /\ deadlineExceeded' = TRUE
  /\ UNCHANGED <<req, pc, status, responseBody, sessionResolved, uploads,
                 existingMessages, messages, log, userStore, asstStore,
                 modelInvoked, produced, genOutcome, delivered, closed,
                 completion>>
  /\ UNCHANGED nonTurnVars

\* ------------------------------------------------------------------------
\* Non-streaming path
\* ------------------------------------------------------------------------
\* Values chatCompletion may resolve with.
Completions ==
  { Event("completion", 0, "answer", [i \in 1..k |-> i]) : k \in 0..MaxToolCalls }

\* completionPromise wins the race.
CompletionResolves ==
  /\ pc = "race"
  /\ \E c \in Completions : completion' = c
  /\ pc' = "storeAsst"
  /\ UNCHANGED <<req, status, responseBody, sessionResolved, uploads,
                 existingMessages, messages, log, userStore, asstStore,
                 modelInvoked, produced, genOutcome, delivered, closed,
                 deadlineExceeded>>
  /\ UNCHANGED nonTurnVars

\* completionPromise rejects: 408 when the error message contains
\* "timeout", otherwise rethrown to the outer catch (500).
CompletionRejects ==
  /\ pc = "race"
  /\ \E mentionsTimeout \in BOOLEAN :
       Respond(IF mentionsTimeout THEN 408 ELSE 500)
  /\ UNCHANGED <<req, responseBody, sessionResolved, uploads,
                 existingMessages, messages, log, userStore, asstStore,
                 modelInvoked, produced, genOutcome, delivered, closed,
                 completion, deadlineExceeded>>
  /\ UNCHANGED nonTurnVars

\* The REQUEST_TIMEOUT_MS timer fires first: timeoutPromise rejects with
\* "Request timeout" and the handler answers 408.
TimeoutFires ==
  /\ pc = "race"
  /\ deadlineExceeded' = TRUE
  /\ Respond(408)
  /\ UNCHANGED <<req, responseBody, sessionResolved, uploads,
                 existingMessages, messages, log, userStore, asstStore,
                 modelInvoked, produced, genOutcome, delivered, closed,
                 completion>>
  /\ UNCHANGED nonTurnVars

\* ------------------------------------------------------------------------
\* Context editing policy
\* ------------------------------------------------------------------------
\* An optional number is <<>> when absent (null / undefined) and <<n>>
\* when present.
\* x ?? d
OrDefault(opt, d) == IF opt = <<>> THEN d ELSE opt[1]

\* config of determineEditStrategies: absent, or custom thresholds.
Configs ==
  { [tokenLimitThreshold |-> <<>>, tokenLimitTarget |-> <<>>,
     toolResultThreshold |-> <<>>, toolCallThreshold |-> <<>>],
    [tokenLimitThreshold |-> <<2>>, tokenLimitTarget |-> <<1>>,
     toolResultThreshold |-> <<1>>, toolCallThreshold |-> <<2>>] }

\* tokenCounts: null, or {total_tokens}.
TokenSnapshots ==
  { <<>> } \cup
  { <<n>> : n \in {0, 1, 2, 3, DefaultTokenLimitThreshold, DefaultTokenLimitThreshold + 1} }

\* Messages as the policy sees them: role and toolCalls, which is absent, a
\* single object, or an array of n calls.
PolicyMessages ==
  { [role |-> "user", toolCalls |-> [kind |-> "absent", n |-> 0]],
    [role |-> "tool", toolCalls |-> [kind |-> "absent", n |-> 0]],
    [role |-> "assistant", toolCalls |-> [kind |-> "object", n |-> 1]],
    [role |-> "assistant", toolCalls |-> [kind |-> "array", n |-> MaxCallsPerMsg]] }

\* The counting loop over messages.
RECURSIVE CountToolCalls_ArrayAsOne(_)
CountToolCalls_ArrayAsOne(msgs) ==
  IF msgs = <<>> THEN 0
  ELSE LET m == msgs[Len(msgs)]
           rest == CountToolCalls_ArrayAsOne(SubSeq(msgs, 1, Len(msgs) - 1))
       IN IF m.toolCalls.kind = "absent" THEN rest ELSE rest + 1

RECURSIVE CountToolCalls(_)
CountToolCalls(msgs) ==
  IF msgs = <<>> THEN 0
  ELSE LET m == msgs[Len(msgs)]
           rest == CountToolCalls(SubSeq(msgs, 1, Len(msgs) - 1))
       IN IF m.toolCalls.kind = "absent" THEN rest
          ELSE IF m.toolCalls.kind = "array" THEN rest + m.toolCalls.n
          ELSE rest + 1

RECURSIVE CountToolResults_WrongRole(_)
CountToolResults_WrongRole(msgs) ==
  IF msgs = <<>> THEN 0
  ELSE CountToolResults_WrongRole(SubSeq(msgs, 1, Len(msgs) - 1))
       + (IF msgs[Len(msgs)].role = "assistant" THEN 1 ELSE 0)

RECURSIVE CountToolResults(_)
CountToolResults(msgs) ==
  IF msgs = <<>> THEN 0
  ELSE CountToolResults(SubSeq(msgs, 1, Len(msgs) - 1))
       + (IF msgs[Len(msgs)].role = "tool" THEN 1 ELSE 0)

TokenLimit(limit) ==
  [type |-> "token_limit", params |-> [limit_tokens |-> limit]]

RemoveToolResult(keep, placeholder) ==
  [type |-> "remove_tool_result",
   params |-> [keep_recent_n_tool_results |-> keep, tool_result_placeholder |-> placeholder]]

RemoveToolCallParams(keep) ==
  [type |-> "remove_tool_call_params", params |-> [keep_recent_n_tool_calls |-> keep]]

determineEditStrategies_AtThreshold(tokenCounts, msgs, config) ==
  LET tokenLimitThreshold == OrDefault(config.tokenLimitThreshold, DefaultTokenLimitThreshold)
      tokenLimitTarget == OrDefault(config.tokenLimitTarget, DefaultTokenLimitTarget)
      toolResultThreshold == OrDefault(config.toolResultThreshold, DefaultToolResultThreshold)
      toolCallThreshold == OrDefault(config.toolCallThreshold, DefaultToolCallThreshold)
      toolCallCount == CountToolCalls(msgs)
      toolResultCount == CountToolResults(msgs)
      s1 == IF tokenCounts[1] > tokenLimitThreshold
              THEN <<TokenLimit(tokenLimitTarget)>> ELSE <<>>
      s2 == IF toolResultCount > toolResultThreshold /\ Len(s1) = 0
              THEN Append(s1, RemoveToolResult(Max(MinKeepRecent, toolResultThreshold \div 2), "Done"))
              ELSE s1
      s3 == IF toolCallCount >= toolCallThreshold /\ Len(s2) = 0
              THEN Append(s2, RemoveToolCallParams(Max(MinKeepRecent, toolCallThreshold \div 2)))
              ELSE s2
  IN IF tokenCounts = <<>> \/ tokenCounts[1] = 0 THEN <<>> ELSE s3

determineEditStrategies_Combined(tokenCounts, msgs, config) ==
  LET tokenLimitThreshold == OrDefault(config.tokenLimitThreshold, DefaultTokenLimitThreshold)
      tokenLimitTarget == OrDefault(config.tokenLimitTarget, DefaultTokenLimitTarget)
      toolResultThreshold == OrDefault(config.toolResultThreshold, DefaultToolResultThreshold)
      toolCallThreshold == OrDefault(config.toolCallThreshold, DefaultToolCallThreshold)
      toolCallCount == CountToolCalls(msgs)
      toolResultCount == CountToolResults(msgs)
      s1 == IF tokenCounts[1] > tokenLimitThreshold
              THEN <<TokenLimit(tokenLimitTarget)>> ELSE <<>>
      s2 == IF toolResultCount > toolResultThreshold
              THEN Append(s1, RemoveToolResult(Max(MinKeepRecent, toolResultThreshold \div 2), "Done"))
              ELSE s1
      s3 == IF toolCallCount > toolCallThreshold /\ Len(s2) = 0
              THEN Append(s2, RemoveToolCallParams(Max(MinKeepRecent, toolCallThreshold \div 2)))
              ELSE s2
  IN IF tokenCounts = <<>> \/ tokenCounts[1] = 0 THEN <<>> ELSE s3

determineEditStrategies(tokenCounts, msgs, config) ==
  LET tokenLimitThreshold == OrDefault(config.tokenLimitThreshold, DefaultTokenLimitThreshold)
      tokenLimitTarget == OrDefault(config.tokenLimitTarget, DefaultTokenLimitTarget)
      toolResultThreshold == OrDefault(config.toolResultThreshold, DefaultToolResultThreshold)
      toolCallThreshold == OrDefault(config.toolCallThreshold, DefaultToolCallThreshold)
      toolCallCount == CountToolCalls(msgs)
      toolResultCount == CountToolResults(msgs)
      s1 == IF tokenCounts[1] > tokenLimitThreshold
              THEN <<TokenLimit(tokenLimitTarget)>> ELSE <<>>
      s2 == IF toolResultCount > toolResultThreshold /\ Len(s1) = 0
              THEN Append(s1, RemoveToolResult(Max(MinKeepRecent, toolResultThreshold \div 2), "Done"))
              ELSE s1
      s3 == IF toolCallCount > toolCallThreshold /\ Len(s2) = 0
              THEN Append(s2, RemoveToolCallParams(Max(MinKeepRecent, toolCallThreshold \div 2)))
              ELSE s2
  IN IF tokenCounts = <<>> \/ tokenCounts[1] = 0 THEN <<>> ELSE s3

\* What acontext.sessions.getTokenCounts does: it rejects, resolves with
\* nothing, or resolves with counts whose total_tokens may be missing.
ProviderTokenOutcomes == {"rejects", "empty", "no_total", "low", "high"}

ProviderTotal(outcome) ==
  IF outcome = "low" THEN <<1>>
  ELSE IF outcome = "high" THEN <<DefaultTokenLimitThreshold + 1>>
  ELSE <<>>

\* getAcontextTokenCounts: the value returned (<<>> for null) and whether
\* the call raised instead of returning.
getAcontextTokenCounts_NoCatch(client, outcome) ==
  IF ~client THEN [raised |-> FALSE, value |-> <<>>]
  ELSE IF outcome = "rejects" THEN [raised |-> TRUE, value |-> <<>>]
  ELSE IF outcome = "empty" THEN [raised |-> FALSE, value |-> <<>>]
  ELSE [raised |-> FALSE, value |-> <<OrDefault(ProviderTotal(outcome), 0)>>]

getAcontextTokenCounts(client, outcome) ==
  IF ~client THEN [raised |-> FALSE, value |-> <<>>]
  ELSE IF outcome = "rejects" THEN [raised |-> FALSE, value |-> <<>>]
  ELSE IF outcome = "empty" THEN [raised |-> FALSE, value |-> <<>>]
  ELSE [raised |-> FALSE, value |-> <<OrDefault(ProviderTotal(outcome), 0)>>]

InitPolicy ==
  /\ pTokens \in TokenSnapshots
  /\ pConfig \in Configs
  /\ pHist = <<>>
  /\ pResult = NotComputed
  /\ pFetch = NotFetched

\* const counts = await getAcontextTokenCounts(sessionId): the snapshot the
\* policy is given next.
FetchTokenCounts ==
  /\ ~pFetch.called
  /\ \E client \in BOOLEAN, outcome \in ProviderTokenOutcomes :
       LET r == getAcontextTokenCounts(client, outcome)
       IN /\ pFetch' = [called |-> TRUE, client |-> client, outcome |-> outcome, raised |-> r.raised]
          /\ pTokens' = r.value
  /\ pResult' = NotComputed
  /\ UNCHANGED <<pConfig, pHist>>
  /\ UNCHANGED nonPolicyVars

\* The session's history grows by one message.
PushMessage ==
  /\ Len(pHist) < MaxHistLen
  /\ \E m \in PolicyMessages : pHist' = Append(pHist, m)
  /\ pResult' = NotComputed
  /\ UNCHANGED <<pTokens, pConfig, pFetch>>
  /\ UNCHANGED nonPolicyVars

\* determineEditStrategies(tokenCounts, messages, config)
Decide ==
  /\ ~pResult.computed
  /\ pResult' = [computed |-> TRUE,
                 strategies |-> determineEditStrategies(pTokens, pHist, pConfig)]
  /\ UNCHANGED <<pTokens, pConfig, pHist, pFetch>>
  /\ UNCHANGED nonPolicyVars

PolicyNext == PushMessage \/ Decide \/ FetchTokenCounts

PolicyInit == IdleTurn /\ InitPolicy /\ IdleStore /\ IdleResolve /\ IdleLife /\ IdleList /\ IdleCompose /\ IdleTools /\ IdleSpace /\ IdleDisk /\ IdlePair /\ IdleSearch /\ IdleExport

SpecPolicy == PolicyInit /\ [][PolicyNext]_vars

\* ------------------------------------------------------------------------
\* Message store adapter
\* ------------------------------------------------------------------------
MaxLogLen == 2
MaxParts == 2

TextPart == [type |-> "text", ref |-> 0]
ImagePart == [type |-> "image_url", ref |-> 1]

\* content of storeMessageInAcontext: a string or a Vision array of parts.
StoreContents ==
  {TextContent} \cup
  {[form |-> "array", parts |-> q] : q \in (SeqsUpTo({TextPart, ImagePart}, MaxParts) \ {<<>>})}

\* const messageBlob = { role, content }
MessageBlob(role, content) == [role |-> role, content |-> content]

\* storeMessageInAcontext: what the caller gets when the provider accepts
\* or rejects the write.
storeMessageInAcontext_NoCatch(client, accepts) ==
  IF ~client THEN "false"
  ELSE IF accepts THEN "true" ELSE "raised"

storeMessageInAcontext(client, accepts) ==
  IF ~client THEN "false"
  ELSE IF accepts THEN "true" ELSE "false"

StoreMessage ==
  /\ Len(aLog) < MaxLogLen
  /\ \E role \in {"user", "assistant"}, content \in StoreContents, accepts \in BOOLEAN :
       /\ aStore' = [result |-> storeMessageInAcontext(aClient, accepts),
                     accepted |-> aClient /\ accepts]
       /\ aLog' = IF aClient /\ accepts
                    THEN Append(aLog, MessageBlob(role, content))
                    ELSE aLog
  /\ aStrategies' = NotComputed
  /\ aView' = NotLoaded
  /\ UNCHANGED aClient
  /\ UNCHANGED nonStoreVars

\* The conversion of one item of getMessages to a chat message.
LoadedMessage_Flattened(msg) ==
  [role |-> msg.role,
   content |-> IF msg.content.form = "string" THEN msg.content
               ELSE [form |-> "string", parts |-> <<[type |-> "text", ref |-> Len(msg.content.parts)]>>]]

LoadedMessage(msg) ==
  [role |-> msg.role,
   content |-> IF msg.content.form = "string" THEN msg.content
               ELSE IF msg.content.form = "array" THEN msg.content
               ELSE [form |-> "string", parts |-> <<[type |-> "text", ref |-> 0]>>]]

\* What getMessages may return for the log under edit strategies: the
\* whole log, or with token_limit the most recent messages only.
EditedViews(items, strategies) ==
  IF \E i \in 1..Len(strategies) : strategies[i].type = "token_limit"
    THEN {SubSeq(items, k, Len(items)) : k \in 1..(Len(items) + 1)}
    ELSE {items}

\* messages as determineEditStrategies is given them.
PolicyView(items) ==
  [i \in 1..Len(items) |-> [role |-> items[i].role, toolCalls |-> [kind |-> "absent", n |-> 0]]]

DefaultConfig ==
  [tokenLimitThreshold |-> <<>>, tokenLimitTarget |-> <<>>,
   toolResultThreshold |-> <<>>, toolCallThreshold |-> <<>>]

\* Token counts are fetched and the strategies for the next read decided.
DecideStrategies ==
  /\ \E outcome \in ProviderTokenOutcomes :
       aStrategies' =
         [computed |-> TRUE,
          strategies |-> determineEditStrategies(
                           getAcontextTokenCounts(aClient, outcome).value,
                           PolicyView(aView.items), DefaultConfig)]
  /\ aStore' = NotStored
  /\ UNCHANGED <<aClient, aLog, aView>>
  /\ UNCHANGED nonStoreVars

\* loadMessagesFromAcontext(sessionId, editStrategies)
LoadMessages_Destructive ==
  /\ \E strategies \in {<<>>, aStrategies.strategies}, ok \in BOOLEAN :
       IF aClient /\ ok
         THEN \E items \in EditedViews(aLog, strategies) :
                /\ aView' = [loaded |-> TRUE, ok |-> TRUE, strategies |-> strategies,
                             items |-> [i \in 1..Len(items) |-> LoadedMessage(items[i])]]
                /\ aLog' = items
         ELSE /\ aView' = [loaded |-> TRUE, ok |-> FALSE, strategies |-> strategies, items |-> <<>>]
              /\ aLog' = aLog
  /\ aStore' = NotStored
  /\ UNCHANGED <<aClient, aStrategies>>
  /\ UNCHANGED nonStoreVars

LoadMessages ==
  /\ \E strategies \in {<<>>, aStrategies.strategies}, ok \in BOOLEAN :
       IF aClient /\ ok
         THEN \E items \in EditedViews(aLog, strategies) :
                aView' = [loaded |-> TRUE, ok |-> TRUE, strategies |-> strategies,
                          items |-> [i \in 1..Len(items) |-> LoadedMessage(items[i])]]
         ELSE aView' = [loaded |-> TRUE, ok |-> FALSE, strategies |-> strategies, items |-> <<>>]
  /\ aStore' = NotStored
  /\ UNCHANGED <<aClient, aLog, aStrategies>>
  /\ UNCHANGED nonStoreVars

InitStore ==
  /\ aClient \in BOOLEAN
  /\ aLog = <<>>
  /\ aStore = NotStored
  /\ aStrategies = NotComputed
  /\ aView = NotLoaded

StoreInit == IdleTurn /\ IdlePolicy /\ InitStore /\ IdleResolve /\ IdleLife /\ IdleList /\ IdleCompose /\ IdleTools /\ IdleSpace /\ IdleDisk /\ IdlePair /\ IdleSearch /\ IdleExport

StoreNext == StoreMessage \/ DecideStrategies \/ LoadMessages

SpecStore == StoreInit /\ [][StoreNext]_vars

\* ------------------------------------------------------------------------
\* getOrCreateAcontextSession, called concurrently for one chat session
\* ------------------------------------------------------------------------
NumCalls == 3

CallIdle == [pc |-> "idle", snap |-> <<>>, created |-> <<>>, ret |-> <<>>]

InitResolve ==
  /\ rClient \in BOOLEAN
  /\ rRow = <<>>
  /\ rDurable = 0
  /\ rCalls = [p \in 1..NumCalls |-> CallIdle]

\* The caller reads the chat session row and passes it as chatSession.
ReadChatSession(p) ==
  /\ rCalls[p].pc = "idle"
  /\ rCalls' = [rCalls EXCEPT ![p].pc = "called", ![p].snap = rRow]
  /\ UNCHANGED <<rClient, rRow, rDurable>>
  /\ UNCHANGED nonResolveVars

\* No client: null.  chatSession.acontextSessionId set: that id.  Otherwise
\* acontext.sessions.create is awaited.
CheckExisting(p) ==
  /\ rCalls[p].pc = "called"
  /\ rCalls' =
       IF ~rClient
         THEN [rCalls EXCEPT ![p].pc = "returned", ![p].ret = <<>>]
         ELSE IF rCalls[p].snap # <<>>
           THEN [rCalls EXCEPT ![p].pc = "returned", ![p].ret = rCalls[p].snap]
           ELSE [rCalls EXCEPT ![p].pc = "creating"]
  /\ UNCHANGED <<rClient, rRow, rDurable>>
  /\ UNCHANGED nonResolveVars

\* acontext.sessions.create resolves with a new session, or rejects and the
\* catch block returns null.
CreateDurableSession(p) ==
  /\ rCalls[p].pc = "creating"
  /\ \E ok \in BOOLEAN :
       IF ok
         THEN /\ rDurable' = rDurable + 1
              /\ rCalls' = [rCalls EXCEPT ![p].pc = "updating", ![p].created = <<rDurable + 1>>]
         ELSE /\ rDurable' = rDurable
              /\ rCalls' = [rCalls EXCEPT ![p].pc = "returned", ![p].ret = <<>>]
  /\ UNCHANGED <<rClient, rRow>>
  /\ UNCHANGED nonResolveVars

\* update({acontext_session_id}).eq("id", chatSession.id); its error is not
\* looked at and the new id is returned.
UpdateSessionRow(p) ==
  /\ rCalls[p].pc = "updating"
  /\ \E ok \in BOOLEAN :
       rRow' = IF ok THEN rCalls[p].created ELSE rRow
  /\ rCalls' = [rCalls EXCEPT ![p].pc = "returned", ![p].ret = rCalls[p].created]
  /\ UNCHANGED <<rClient, rDurable>>
  /\ UNCHANGED nonResolveVars

ResolveNext ==
  \E p \in 1..NumCalls :
    \/ ReadChatSession(p)
    \/ CheckExisting(p)
    \/ CreateDurableSession(p)
    \/ UpdateSessionRow(p)

ResolveInit == IdleTurn /\ IdlePolicy /\ IdleStore /\ InitResolve /\ IdleLife /\ IdleList /\ IdleCompose /\ IdleTools /\ IdleSpace /\ IdleDisk /\ IdlePair /\ IdleSearch /\ IdleExport

SpecResolve == ResolveInit /\ [][ResolveNext]_vars

\* ------------------------------------------------------------------------
\* createAcontextSessionDirectly and deleteAcontextSession
\* ------------------------------------------------------------------------
NumUsers == 2
MaxSessions == 2

InitLife ==
  /\ lClient \in BOOLEAN
  /\ lDurable = <<>>
  /\ lRows = {}
  /\ lCreate = NoCall
  /\ lDelete = NoCall

\* ACONTEXT_API_KEY is set or removed between requests.
Reconfigure ==
  /\ lClient' = ~lClient
  /\ UNCHANGED <<lDurable, lRows, lCreate, lDelete>>
  /\ UNCHANGED nonLifeVars

\* createAcontextSessionDirectly(userId, title): null without a client or
\* when sessions.create (or anything else in the try block) throws; a failed
\* insert of the mapping row is logged and the session id is returned anyway.
CreateSessionDirectly ==
  /\ Len(lDurable) < MaxSessions
  /\ \E u \in 1..NumUsers, created \in BOOLEAN, insert \in {"ok", "error", "throws"} :
       IF ~lClient \/ ~created
         THEN /\ lCreate' = [called |-> TRUE, arg |-> u, ret |-> <<>>, dbError |-> FALSE]
              /\ UNCHANGED <<lDurable, lRows>>
         ELSE /\ lDurable' = Append(lDurable, u)
              /\ lRows' = IF insert = "ok"
                            THEN lRows \cup {[id |-> Len(lDurable) + 1, user |-> u]}
                            ELSE lRows
              /\ lCreate' = [called |-> TRUE, arg |-> u,
                             ret |-> IF insert = "throws" THEN <<>> ELSE <<Len(lDurable) + 1>>,
                             dbError |-> insert # "ok"]
  /\ lDelete' = NoCall
  /\ UNCHANGED lClient
  /\ UNCHANGED nonLifeVars

\* deleteAcontextSession(acontextSessionId): false without a client;
\* otherwise the mapping row is deleted and false is returned on an error.
DeleteSession ==
  /\ \E id \in 1..MaxSessions, dbOk \in BOOLEAN :
       IF ~lClient
         THEN /\ lDelete' = [called |-> TRUE, arg |-> id, ret |-> <<FALSE>>, dbError |-> FALSE]
              /\ lRows' = lRows
         ELSE /\ lRows' = IF dbOk THEN {r \in lRows : r.id # id} ELSE lRows
              /\ lDelete' = [called |-> TRUE, arg |-> id, ret |-> <<dbOk>>, dbError |-> ~dbOk]
  /\ lCreate' = NoCall
  /\ UNCHANGED <<lClient, lDurable>>
  /\ UNCHANGED nonLifeVars

LifeNext == Reconfigure \/ CreateSessionDirectly \/ DeleteSession

LifeInit == IdleTurn /\ IdlePolicy /\ IdleStore /\ IdleResolve /\ InitLife /\ IdleList /\ IdleCompose /\ IdleTools /\ IdleSpace /\ IdleDisk /\ IdlePair /\ IdleSearch /\ IdleExport

SpecLife == LifeInit /\ [][LifeNext]_vars

\* ------------------------------------------------------------------------
\* GET /api/chat-sessions/[id]/messages
\* ------------------------------------------------------------------------
NumListUsers == 2
NumListSessions == 3

\* chat_sessions: the sessions are dealt out to the users in turn.
ListRows == {[id |-> n, user |-> ((n - 1) % NumListUsers) + 1] : n \in 1..NumListSessions}

\* What the provider holds for a session: one message naming the session.
SessionLog(id) == <<[role |-> "user", ref |-> id]>>

ListRequests ==
  [caller : 0..NumListUsers, authError : BOOLEAN,
   id : 1..(NumListSessions + 1), queryError : BOOLEAN]

InitList ==
  /\ gReq \in ListRequests
  /\ gPc = "auth"
  /\ gResp = NoResponse
  /\ gReads = {}

\* supabase.auth.getUser(): authError or no user ends with 401.
GetAuthenticate ==
  /\ gPc = "auth"
  /\ IF gReq.authError \/ gReq.caller = 0
       THEN /\ gResp' = [NoResponse EXCEPT !.status = 401]
            /\ gPc' = "done"
       ELSE /\ gResp' = gResp
            /\ gPc' = "owner"
  /\ UNCHANGED <<gReq, gReads>>
  /\ UNCHANGED nonListVars

\* select id from chat_sessions where id = :id (no user_id filter).
OwnedRow_AnyUser(lookup) ==
  /\ ~lookup.queryError
  /\ \E r \in ListRows : r.id = lookup.id

\* select id from chat_sessions where id = :id and user_id = :user,
\* maybeSingle(): sessionError or no row.
OwnedRow(lookup) ==
  /\ ~lookup.queryError
  /\ [id |-> lookup.id, user |-> lookup.caller] \in ListRows

GetVerifyOwner ==
  /\ gPc = "owner"
  /\ IF OwnedRow(gReq)
       THEN /\ gResp' = gResp
            /\ gPc' = "load"
       ELSE /\ gResp' = [NoResponse EXCEPT !.status = 200]
            /\ gPc' = "done"
  /\ UNCHANGED <<gReq, gReads>>
  /\ UNCHANGED nonListVars

\* loadMessages(id): resolves with the session's messages, or throws and
\* the catch block answers 500.
GetLoadMessages ==
  /\ gPc = "load"
  /\ gReads' = gReads \cup {"messages"}
  /\ \E ok \in BOOLEAN :
       IF ok
         THEN /\ gResp' = [gResp EXCEPT !.messages = SessionLog(gReq.id)]
              /\ gPc' = "tokens"
         ELSE /\ gResp' = [NoResponse EXCEPT !.status = 500]
              /\ gPc' = "done"
  /\ UNCHANGED gReq
  /\ UNCHANGED nonListVars

\* getAcontextTokenCounts(id): null or counts; then the JSON response.
GetTokenCounts ==
  /\ gPc = "tokens"
  /\ gReads' = gReads \cup {"tokens"}
  /\ \E counts \in {<<>>, <<1>>} :
       gResp' = [gResp EXCEPT !.status = 200, !.tokenCounts = counts]
  /\ gPc' = "done"
  /\ UNCHANGED gReq
  /\ UNCHANGED nonListVars

ListNext == GetAuthenticate \/ GetVerifyOwner \/ GetLoadMessages \/ GetTokenCounts

ListInit == IdleTurn /\ IdlePolicy /\ IdleStore /\ IdleResolve /\ IdleLife /\ InitList /\ IdleCompose /\ IdleTools /\ IdleSpace /\ IdleDisk /\ IdlePair /\ IdleSearch /\ IdleExport

SpecList == ListInit /\ [][ListNext]_vars

\* ------------------------------------------------------------------------
\* POST handler: content of the new user message, for longer attachment lists
\* ------------------------------------------------------------------------
MaxComposeAttachments == 4

\* Message values that pass validation: a blank one and a non-blank one.
ValidMessages ==
  {m \in MessageValues : ~MessageMissingOrNotString(m) /\ ~MessageTooLong(m)}

InitCompose ==
  /\ uIn \in [message : ValidMessages,
              atts : SeqsUpTo(AttachmentKinds, MaxComposeAttachments)]
  /\ uOut = <<>>

\* route.ts 351-415: the user message pushed onto messages.
ComposeUserMessage ==
  /\ uOut = <<>>
  /\ uOut' = <<UserContent(uIn.message, uIn.atts)>>
  /\ UNCHANGED uIn
  /\ UNCHANGED nonComposeVars

ComposeNext == ComposeUserMessage

ComposeInit == IdleTurn /\ IdlePolicy /\ IdleStore /\ IdleResolve /\ IdleLife /\ IdleList /\ InitCompose /\ IdleTools /\ IdleSpace /\ IdleDisk /\ IdlePair /\ IdleSearch /\ IdleExport

SpecCompose == ComposeInit /\ [][ComposeNext]_vars

\* ------------------------------------------------------------------------
\* POST handler: tools offered to the model
\* ------------------------------------------------------------------------
NumTools == 2
MaxAllowLen == 2

\* availableTools when tools are enabled, by tool name.
RegisteredTools == [i \in 1..NumTools |-> i]

\* An element of body.enabledToolNames: a non-string, or a string made of
\* a name and possibly surrounding blanks.  Name 0 is the empty name, names
\* 1..NumTools are registered, NumTools + 1 is not.
AllowEntries ==
  {[isString |-> FALSE, name |-> 0, padded |-> FALSE]}
  \cup [isString : {TRUE}, name : 0..(NumTools + 1), padded : BOOLEAN]

\* body.enabledToolNames: not an array (<<>>), or an array (<<list>>).
ToolRequests ==
  [toolsEnabled : BOOLEAN,
   enabledToolNames : {<<>>} \cup {<<l>> : l \in SeqsUpTo(AllowEntries, MaxAllowLen)}]

\* A string as it compares to a tool name: a padded string equals no name.
RawName(e) == IF e.padded THEN e.name + NumTools + 2 ELSE e.name

\* name.trim()
TrimName_None(e) == RawName(e)

TrimName(e) == e.name

\* The Set of trimmed, non-empty string entries.
requestedToolNames(list) ==
  {TrimName(list[i]) : i \in {k \in 1..Len(list) : list[k].isString}} \ {0}

IsRequested(names, tool) == tool \in names

filteredTools(toolsEnabled, enabledToolNames) ==
  IF ~toolsEnabled
    THEN <<>>
    ELSE IF enabledToolNames # <<>>
      THEN IF requestedToolNames(enabledToolNames[1]) = {}
        THEN <<>>
        ELSE SelectSeq(RegisteredTools,
                       LAMBDA t : IsRequested(requestedToolNames(enabledToolNames[1]), t))
      ELSE RegisteredTools

InitTools ==
  /\ tIn \in ToolRequests
  /\ tOut = <<>>

FilterTools ==
  /\ tOut = <<>>
  /\ tOut' = <<filteredTools(tIn.toolsEnabled, tIn.enabledToolNames)>>
  /\ UNCHANGED tIn
  /\ UNCHANGED nonToolsVars

ToolsNext == FilterTools

ToolsInit == IdleTurn /\ IdlePolicy /\ IdleStore /\ IdleResolve /\ IdleLife /\ IdleList /\ IdleCompose /\ InitTools /\ IdleSpace /\ IdleDisk /\ IdlePair /\ IdleSearch /\ IdleExport

SpecTools == ToolsInit /\ [][ToolsNext]_vars

\* ------------------------------------------------------------------------
\* getOrCreateUserSpaceId, called concurrently for one user
\* ------------------------------------------------------------------------
NumSpaceCalls == 3

SpaceCallIdle == [pc |-> "idle", created |-> <<>>, ret |-> <<>>]

InitSpace ==
  /\ sClient \in BOOLEAN
  /\ sRows = {}
  /\ sSpaces = 0
  /\ sCalls = [p \in 1..NumSpaceCalls |-> SpaceCallIdle]

\* No client: null.  Otherwise the mapping is read with maybeSingle(): an
\* error (also raised for more than one row) returns null, a row returns
\* its space_id, no row goes on to create a Space.
LookupSpaceMapping(p) ==
  /\ sCalls[p].pc = "idle"
  /\ \E queryError \in BOOLEAN :
       sCalls' =
         IF ~sClient \/ queryError \/ Cardinality(sRows) > 1
           THEN [sCalls EXCEPT ![p].pc = "returned"]
           ELSE IF sRows # {}
             THEN [sCalls EXCEPT ![p].pc = "returned",
                                 ![p].ret = <<CHOOSE id \in sRows : TRUE>>]
             ELSE [sCalls EXCEPT ![p].pc = "creating"]
  /\ UNCHANGED <<sClient, sRows, sSpaces>>
  /\ UNCHANGED nonSpaceVars

\* acontext.spaces.create: resolves with a Space, or rejects and the catch
\* block returns null.
CreateSpace(p) ==
  /\ sCalls[p].pc = "creating"
  /\ \E ok \in BOOLEAN :
       IF ok
         THEN /\ sSpaces' = sSpaces + 1
              /\ sCalls' = [sCalls EXCEPT ![p].pc = "persisting", ![p].created = <<sSpaces + 1>>]
         ELSE /\ sSpaces' = sSpaces
              /\ sCalls' = [sCalls EXCEPT ![p].pc = "returned"]
  /\ UNCHANGED <<sClient, sRows>>
  /\ UNCHANGED nonSpaceVars

\* insert({user_id, space_id}): best-effort, an error is only logged; the
\* new space id is returned either way.
PersistSpaceMapping(p) ==
  /\ sCalls[p].pc = "persisting"
  /\ \E ok \in BOOLEAN :
       sRows' = IF ok THEN sRows \cup {sCalls[p].created[1]} ELSE sRows
  /\ sCalls' = [sCalls EXCEPT ![p].pc = "returned", ![p].ret = sCalls[p].created]
  /\ UNCHANGED <<sClient, sSpaces>>
  /\ UNCHANGED nonSpaceVars

SpaceNext ==
  \E p \in 1..NumSpaceCalls :
    \/ LookupSpaceMapping(p)
    \/ CreateSpace(p)
    \/ PersistSpaceMapping(p)

SpaceInit == IdleTurn /\ IdlePolicy /\ IdleStore /\ IdleResolve /\ IdleLife /\ IdleList /\ IdleCompose /\ IdleTools /\ InitSpace /\ IdleDisk /\ IdlePair /\ IdleSearch /\ IdleExport

SpecSpace == SpaceInit /\ [][SpaceNext]_vars

\* ------------------------------------------------------------------------
\* Attachment upload: uploadFileToAcontext with the session's disk
\* ------------------------------------------------------------------------
NumDiskSessions == 3
MaxDisks == 3

NoSession == [created |-> FALSE, diskId |-> <<>>]

InitDisk ==
  /\ dDisks = <<>>
  /\ dSess = [n \in 1..NumDiskSessions |-> NoSession]
  /\ dUploads = {}

\* createAcontextSessionDirectly: a dedicated disk is created for the
\* session and stored as acontext_disk_id; when disks.create fails the
\* session is kept without a disk.
CreateSessionDisk(n) ==
  /\ ~dSess[n].created
  /\ \E diskOk \in BOOLEAN :
       IF diskOk /\ Len(dDisks) < MaxDisks
         THEN /\ dDisks' = Append(dDisks, n)
              /\ dSess' = [dSess EXCEPT ![n] = [created |-> TRUE, diskId |-> <<Len(dDisks) + 1>>]]
         ELSE /\ dDisks' = dDisks
              /\ dSess' = [dSess EXCEPT ![n] = [created |-> TRUE, diskId |-> <<>>]]
  /\ UNCHANGED dUploads
  /\ UNCHANGED nonDiskVars

\* targetDiskId: the diskId given, else the first disk listed, else a
\* newly created one (0 stands for the disk about to be created).
targetDiskId(diskId, disks) ==
  IF diskId # <<>> THEN diskId[1]
  ELSE IF Len(disks) > 0 THEN 1
  ELSE 0

\* POST: uploadFileToAcontext(filename, content, mimeType, session.acontextDiskId)
\* for a session of the request; artifacts.upsert resolves or rejects.
UploadToDisk(n) ==
  /\ dSess[n].created
  /\ LET target == targetDiskId(dSess[n].diskId, dDisks) IN
       \E ok \in BOOLEAN :
         IF target = 0
           THEN /\ dDisks' = Append(dDisks, 0)
                /\ dUploads' = IF ok THEN dUploads \cup {[session |-> n, disk |-> Len(dDisks) + 1]}
                                     ELSE dUploads
           ELSE /\ dDisks' = dDisks
                /\ dUploads' = IF ok THEN dUploads \cup {[session |-> n, disk |-> target]}
                                     ELSE dUploads
  /\ UNCHANGED dSess
  /\ UNCHANGED nonDiskVars

DiskNext ==
  \E n \in 1..NumDiskSessions :
    \/ CreateSessionDisk(n)
    \/ UploadToDisk(n)

DiskInit == IdleTurn /\ IdlePolicy /\ IdleStore /\ IdleResolve /\ IdleLife /\ IdleList /\ IdleCompose /\ IdleTools /\ IdleSpace /\ InitDisk /\ IdlePair /\ IdleSearch /\ IdleExport

SpecDisk == DiskInit /\ [][DiskNext]_vars

\* ------------------------------------------------------------------------
\* POST handler: the durable writes of turns running on one session
\* ------------------------------------------------------------------------
NumTurns == 3

TurnIdle == [pc |-> "storeUser", userStored |-> FALSE]

InitPair ==
  /\ kLog = <<>>
  /\ kTurns = [t \in 1..NumTurns |-> TurnIdle]

\* await storeMessageInAcontext(acontextSessionId, "user", ...): reports
\* success without the message having been written.
StoreTurnUser_Dropped(t) ==
  /\ kTurns[t].pc = "storeUser"
  /\ \E ok \in BOOLEAN :
       /\ kLog' = kLog
       /\ kTurns' = [kTurns EXCEPT ![t] = [pc |-> "model", userStored |-> TRUE]]
  /\ UNCHANGED nonPairVars

\* await storeMessageInAcontext(acontextSessionId, "user", ...): the result
\* is not looked at and the turn goes on.
StoreTurnUser(t) ==
  /\ kTurns[t].pc = "storeUser"
  /\ \E ok \in BOOLEAN :
       /\ kLog' = IF ok THEN Append(kLog, [role |-> "user", turn |-> t]) ELSE kLog
       /\ kTurns' = [kTurns EXCEPT ![t] = [pc |-> "model", userStored |-> ok]]
  /\ UNCHANGED nonPairVars

\* The model produces a final answer, or the turn ends without one.
TurnAnswers(t) ==
  /\ kTurns[t].pc = "model"
  /\ \E final \in BOOLEAN :
       kTurns' = [kTurns EXCEPT ![t].pc = IF final THEN "storeAssistant" ELSE "done"]
  /\ UNCHANGED kLog
  /\ UNCHANGED nonPairVars

\* await storeMessageInAcontext(acontextSessionId, "assistant", ...)
StoreTurnAssistant(t) ==
  /\ kTurns[t].pc = "storeAssistant"
  /\ \E ok \in BOOLEAN :
       kLog' = IF ok THEN Append(kLog, [role |-> "assistant", turn |-> t]) ELSE kLog
  /\ kTurns' = [kTurns EXCEPT ![t].pc = "done"]
  /\ UNCHANGED nonPairVars

PairNext ==
  \E t \in 1..NumTurns :
    \/ StoreTurnUser(t)
    \/ TurnAnswers(t)
    \/ StoreTurnAssistant(t)

PairInit == IdleTurn /\ IdlePolicy /\ IdleStore /\ IdleResolve /\ IdleLife /\ IdleList /\ IdleCompose /\ IdleTools /\ IdleSpace /\ IdleDisk /\ InitPair /\ IdleSearch /\ IdleExport

SpecPair == PairInit /\ [][PairNext]_vars

\* ------------------------------------------------------------------------
\* runExperienceSearch (the experience_search tool)
\* ------------------------------------------------------------------------
NumSearchUsers == 2
MaxBlocks == 2

\* args.query: absent, not a string, a string of blanks, a string with
\* surrounding blanks, a plain string.
QueryKinds == {"missing", "nonstring", "blank", "padded", "plain"}

\* !args?.query || typeof args.query !== "string", then !args.query.trim()
QueryInvalid(query) == query \in {"missing", "nonstring", "blank"}

\* A cited block, by the fields the mapping looks at.
BlockKinds == [title : BOOLEAN, summary : BOOLEAN]

\* blocks.map(...): one skill per block, with defaults for a missing title
\* or summary.
SkillOf(block) ==
  [title |-> IF block.title THEN "title" ELSE "Untitled skill",
   summary |-> IF block.summary THEN "summary" ELSE "No summary available."]

SearchResult(skills) ==
  [kind |-> "result", message |-> "", skills |-> skills, count |-> Len(skills)]

SearchError(message) ==
  [kind |-> "error", message |-> message, skills |-> <<>>, count |-> 0]

InitSearch ==
  /\ xIn \in [client : BOOLEAN, userId : 1..NumSearchUsers, query : QueryKinds]
  /\ xRun = [SearchIdle EXCEPT !.pc = "check"]
  /\ xOut = NoSearchOutcome

\* Lines 61-77: without a client an empty result is returned; after that
\* the query is validated and an invalid one throws.
CheckSearchArguments ==
  /\ xRun.pc = "check"
  /\ IF ~xIn.client
       THEN /\ xOut' = SearchResult(<<>>)
            /\ xRun' = [xRun EXCEPT !.pc = "done"]
       ELSE IF QueryInvalid(xIn.query)
         THEN /\ xOut' = SearchError("Query must be a non-empty string")
              /\ xRun' = [xRun EXCEPT !.pc = "done"]
         ELSE /\ xOut' = xOut
              /\ xRun' = [xRun EXCEPT !.pc = "space"]
  /\ UNCHANGED xIn
  /\ UNCHANGED nonSearchVars

\* getOrCreateUserSpaceId(userId): a space id, null (its own failures are
\* caught inside and give null), or an exception raised on the way.
LookupSearchSpace ==
  /\ xRun.pc = "space"
  /\ \E outcome \in {"space", "null", "raises"} :
       CASE outcome = "space" ->
              /\ xOut' = xOut
              /\ xRun' = [xRun EXCEPT !.pc = "search"]
         [] outcome = "null" ->
              /\ xOut' = SearchResult(<<>>)
              /\ xRun' = [xRun EXCEPT !.pc = "done"]
         [] outcome = "raises" ->
              /\ xOut' = SearchResult(<<>>)
              /\ xRun' = [xRun EXCEPT !.pc = "done", !.raised = "space lookup failed"]
  /\ UNCHANGED xIn
  /\ UNCHANGED nonSearchVars

\* client.spaces.experienceSearch: resolves with cited blocks (possibly
\* none) or rejects; the catch block returns an empty result.
SearchSpace ==
  /\ xRun.pc = "search"
  /\ \/ \E blocks \in SeqsUpTo(BlockKinds, MaxBlocks) :
          /\ xOut' = SearchResult([i \in 1..Len(blocks) |-> SkillOf(blocks[i])])
          /\ xRun' = [xRun EXCEPT !.pc = "done", !.searched = TRUE]
     \/ /\ xOut' = SearchResult(<<>>)
        /\ xRun' = [xRun EXCEPT !.pc = "done", !.searched = TRUE, !.raised = "search failed"]
  /\ UNCHANGED xIn
  /\ UNCHANGED nonSearchVars

SearchNext == CheckSearchArguments \/ LookupSearchSpace \/ SearchSpace

SearchInit == IdleTurn /\ IdlePolicy /\ IdleStore /\ IdleResolve /\ IdleLife /\ IdleList /\ IdleCompose /\ IdleTools /\ IdleSpace /\ IdleDisk /\ IdlePair /\ InitSearch /\ IdleExport

SpecSearch == SearchInit /\ [][SearchNext]_vars

\* ------------------------------------------------------------------------
\* POST /api/acontext/artifacts/batch-download
\* ------------------------------------------------------------------------
MaxItems == 3

\* An element of body.urls: null, an object without a string url, one
\* without a string filename, or a {url, filename} pair; wide says that the
\* filename has characters outside Latin-1.
ExportItems ==
  {[kind |-> k, wide |-> FALSE] : k \in {"null", "noUrl", "noFilename"}}
  \cup [kind : {"pair"}, wide : BOOLEAN]

FetchOutcomes == {"image", "httpError", "notImage"}

InitExport ==
  /\ eIn \in SeqsUpTo(ExportItems, MaxItems)
  /\ eRun = [ExportIdle EXCEPT !.pc = "validate"]
  /\ eResp = NoExport

\* Index of the first element the validation loop stops at, 0 if none.
FirstBadItem(urls) ==
  IF \E i \in 1..Len(urls) : urls[i].kind # "pair"
    THEN CHOOSE i \in 1..Len(urls) :
           /\ urls[i].kind # "pair"
           /\ \A j \in 1..(i - 1) : urls[j].kind = "pair"
    ELSE 0

\* Lines 22-52: an empty list is answered with 400; item.url of a null
\* element throws and the outer catch answers 500; a missing url or
\* filename is answered with 400.
ValidationStatus(urls) ==
  IF Len(urls) = 0 THEN 400
  ELSE IF FirstBadItem(urls) = 0 THEN 0
  ELSE IF urls[FirstBadItem(urls)].kind = "null" THEN 500
  ELSE 400

ValidateUrls ==
  /\ eRun.pc = "validate"
  /\ IF ValidationStatus(eIn) = 0
       THEN /\ eRun' = [eRun EXCEPT !.pc = "fetch"]
            /\ eResp' = eResp
       ELSE /\ eRun' = [eRun EXCEPT !.pc = "done"]
            /\ eResp' = [NoExport EXCEPT !.status = ValidationStatus(eIn)]
  /\ UNCHANGED eIn
  /\ UNCHANGED nonExportVars

\* Lines 68-141: the next item is fetched; an image becomes a slide, a
\* failed response or a non-image is pushed onto errors.
FetchImage ==
  /\ eRun.pc = "fetch"
  /\ Len(eRun.outcomes) < Len(eIn)
  /\ \E outcome \in FetchOutcomes :
       LET i == Len(eRun.outcomes) + 1 IN
         eRun' = [eRun EXCEPT
                    !.outcomes = Append(@, outcome),
                    !.slides = IF outcome = "image" THEN Append(@, i) ELSE @,
                    !.errors = IF outcome = "image" THEN @ ELSE Append(@, i)]
  /\ UNCHANGED <<eIn, eResp>>
  /\ UNCHANGED nonExportVars

\* "X-Errors": JSON.stringify(errors) is a header value: a filename with
\* characters outside Latin-1 makes the Response constructor throw.
HeaderAccepted(urls, errors) ==
  \A k \in 1..Len(errors) : ~urls[errors[k]].wide

\* Lines 143-176: pptx.write, then the response; anything thrown ends in
\* the outer catch with 500.
WritePresentation ==
  /\ eRun.pc = "fetch"
  /\ Len(eRun.outcomes) = Len(eIn)
  /\ \E written \in BOOLEAN :
       /\ eResp' = IF written /\ HeaderAccepted(eIn, eRun.errors)
                     THEN [status |-> 200, slides |-> eRun.slides, xErrors |-> eRun.errors]
                     ELSE [NoExport EXCEPT !.status = 500]
       /\ eRun' = [eRun EXCEPT !.pc = "done", !.written = written]
  /\ UNCHANGED eIn
  /\ UNCHANGED nonExportVars

ExportNext == ValidateUrls \/ FetchImage \/ WritePresentation

ExportInit == IdleTurn /\ IdlePolicy /\ IdleStore /\ IdleResolve /\ IdleLife /\ IdleList /\ IdleCompose /\ IdleTools /\ IdleSpace /\ IdleDisk /\ IdlePair /\ IdleSearch /\ InitExport

SpecExport == ExportInit /\ [][ExportNext]_vars

TurnNext ==
  \/ Authenticate
  \/ ParseAndValidate
  \/ ResolveSession
  \/ UploadAttachment
  \/ LoadHistory
  \/ StoreUserMessage
  \/ InvokeModel
  \/ StreamEvent
  \/ StreamFinal
  \/ StreamThrows
  \/ StreamEnds
  \/ StoreAssistantMessage
  \/ SendFinal
  \/ StreamDeadlinePasses
  \/ CompletionResolves
  \/ CompletionRejects
  \/ TimeoutFires

Next == TurnNext

Spec == Init /\ [][Next]_vars


\* ------------------------------------------------------------------------
\* Properties
\* ------------------------------------------------------------------------
Last(q) == q[Len(q)]

TurnOver == pc = "done"

\* The SSE events forwarded from the generator (the error event of the
\* catch block is not one of them).
Forwarded == SelectSeq(delivered, LAMBDA d : d.type # "error")

HasDelivered(type) == \E i \in 1..Len(delivered) : delivered[i].type = type

\* Messages the modelled turn has written to the log with the given role.
TurnEntries(role) == {i \in 1..Len(log) : log[i].turn = 1 /\ log[i].role = role}

\* C1: every streaming turn ends with a final_message or an error event
\* delivered and the SSE stream closed, however the generator ends.
C1_StreamingTurnEndsWithFinalOrError ==
  (req.stream /\ modelInvoked /\ TurnOver) =>
    /\ closed
    /\ delivered # <<>>
    /\ Last(delivered).type \in {"final_message", "error"}

\* C2: in a streaming turn a delivered final_message is the only one, it is
\* the last event delivered, and the stream is closed right after it; a
\* turn that ended with the generator's final message has delivered it.
C2_FinalMessageIsLast ==
  /\ \A i \in 1..Len(delivered) :
       delivered[i].type = "final_message" => (i = Len(delivered) /\ closed)
  /\ genOutcome = "final" => HasDelivered("final_message")

C2_Witness ==
  /\ closed
  /\ Len(delivered) >= 2
  /\ Last(delivered).type = "final_message"
  /\ delivered[1].type # "final_message"

\* C3: the attempt to store the user message has completed before the model
\* is invoked, and when that write succeeded the user message is in the log
\* from then on, whatever happens to the turn afterwards.
C3_UserMessageStoredBeforeModel ==
  modelInvoked =>
    /\ userStore \in {"ok", "failed"}
    /\ userStore = "ok" =>
         /\ Len(log) > Len(req.history)
         /\ log[Len(req.history) + 1] = StoredBlob("user", UserContent(req.message, req.attachments))

C3_Witness ==
  /\ modelInvoked
  /\ userStore = "ok"
  /\ TurnOver
  /\ \/ status \in {408, 500}
     \/ HasDelivered("error")

\* C4: the assistant message written to the log carries the tool calls
\* that final_message / the JSON response reports.
C4_AssistantMessageCarriesToolCalls ==
  \A i \in TurnEntries("assistant") : log[i].toolCalls = Answer.toolCalls

\* C5: a failed write of the assistant message does not abort the turn: the
\* client gets final_message (or the JSON response) with the answer's text,
\* and the log holds no assistant message of the turn.
C5_FailedAssistantWriteKeepsAnswer ==
  asstStore = "failed" =>
    /\ TurnEntries("assistant") = {}
    /\ pc \in {"tokenCounts", "done"}
    /\ TurnOver =>
         IF req.stream
           THEN /\ closed
                /\ Last(delivered).type = "final_message"
                /\ Last(delivered).text = Last(produced).text
                /\ ~HasDelivered("error")
           ELSE /\ status = 200
                /\ responseBody.text = completion.text

C5_Witness ==
  /\ asstStore = "failed"
  /\ TurnOver
  /\ req.stream
  /\ Last(delivered).type = "final_message"

\* C6: a turn whose model/tool work exceeds the deadline ends with a
\* timeout error instead of final_message / the JSON answer, and no
\* assistant message is persisted for it, on both paths.
C6_DeadlineEndsTurnWithTimeout ==
  deadlineExceeded =>
    /\ asstStore = "none"
    /\ ~HasDelivered("final_message")
    /\ TurnOver =>
         IF req.stream
           THEN closed /\ Last(delivered).type = "error"
           ELSE status = 408

\* C7: the events forwarded to the client are the events the generator
\* produced, in the same order, up to and including the first
\* final_message; only the final_message being finalized may be pending.
C7_DeliveredInProducedOrder ==
  /\ Len(Forwarded) <= Len(produced)
  /\ \A i \in 1..Len(Forwarded) :
       /\ Forwarded[i].type = produced[i].type
       /\ Forwarded[i].id = produced[i].id
       /\ Forwarded[i].text = produced[i].text
  /\ Len(Forwarded) = Len(produced)
       \/ (Len(Forwarded) = Len(produced) - 1 /\ pc \in {"storeAsst", "tokenCounts"})

C7_Witness ==
  /\ Len(delivered) = 3
  /\ \E id \in 1..MaxToolCalls :
       /\ delivered[1].type = "tool_call_start" /\ delivered[1].id = id
       /\ delivered[2].type = "tool_call_step" /\ delivered[2].id = id
       /\ delivered[3].type = "tool_call_complete" /\ delivered[3].id = id

\* C8: a tool_call_error does not end the turn: the stream is not closed
\* on it, later events are still delivered, and an error event appears
\* only when the generator throws.
C8_ToolCallErrorDoesNotEndTurn ==
  HasDelivered("tool_call_error") =>
    /\ closed => Last(delivered).type # "tool_call_error"
    /\ HasDelivered("error") => genOutcome = "threw"
    /\ pc = "pull" => Len(delivered) = Len(produced)

C8_Witness ==
  /\ closed
  /\ Len(delivered) = 3
  /\ delivered[1].type = "tool_call_error"
  /\ delivered[2].type = "tool_call_complete"
  /\ delivered[3].type = "final_message"

\* C9: an unauthenticated request, one with an unparsable body, or one
\* whose message is missing, not a string or longer than 100000 characters
\* is answered 401 / 400 with no session resolved, no attachment uploaded,
\* nothing persisted and no model work.
RequestInvalid ==
  \/ ~req.authOk
  \/ ~req.bodyOk
  \/ req.message.kind # "string"
  \/ req.message.len = 0
  \/ req.message.len > 100000

C10_TokenLimitAloneAboveThreshold ==
  (/\ pResult.computed
   /\ pTokens # <<>>
   /\ pTokens[1] > OrDefault(pConfig.tokenLimitThreshold, DefaultTokenLimitThreshold)) =>
    pResult.strategies =
      <<[type |-> "token_limit",
         params |-> [limit_tokens |-> OrDefault(pConfig.tokenLimitTarget, DefaultTokenLimitTarget)]]>>

C10_Witness ==
  /\ pResult.computed
  /\ pTokens = <<DefaultTokenLimitThreshold + 1>>
  /\ pConfig.tokenLimitThreshold = <<>>
  /\ CountToolResults(pHist) > DefaultToolResultThreshold
  /\ pResult.strategies # <<>>


\* The thresholds in force and the counts of the history under decision.
TokenLimitThresholdInForce == OrDefault(pConfig.tokenLimitThreshold, DefaultTokenLimitThreshold)

ToolResultThresholdInForce == OrDefault(pConfig.toolResultThreshold, DefaultToolResultThreshold)

ToolCallThresholdInForce == OrDefault(pConfig.toolCallThreshold, DefaultToolCallThreshold)

NumToolResults == Cardinality({i \in 1..Len(pHist) : pHist[i].role = "tool"})

NumToolCalls ==
  LET n(i) == IF pHist[i].toolCalls.kind = "array" THEN pHist[i].toolCalls.n
              ELSE IF pHist[i].toolCalls.kind = "object" THEN 1 ELSE 0
      sum[k \in 0..Len(pHist)] == IF k = 0 THEN 0 ELSE sum[k - 1] + n(k)
  IN sum[Len(pHist)]

ExpectedRemoveToolResult ==
  <<[type |-> "remove_tool_result",
     params |-> [keep_recent_n_tool_results |->
                   (IF ToolResultThresholdInForce \div 2 > 3 THEN ToolResultThresholdInForce \div 2 ELSE 3),
                 tool_result_placeholder |-> "Done"]]>>

ExpectedRemoveToolCallParams ==
  <<[type |-> "remove_tool_call_params",
     params |-> [keep_recent_n_tool_calls |->
                   (IF ToolCallThresholdInForce \div 2 > 3 THEN ToolCallThresholdInForce \div 2 ELSE 3)]]>>

\* C11 as stated: for every available total from 0 up to the high-water
\* mark and more than toolResultThreshold tool results, the policy returns
\* exactly [remove_tool_result(max(3, floor(threshold/2)), "Done")].
C11_RemoveToolResultFromZero ==
  (/\ pResult.computed
   /\ pTokens # <<>>
   /\ pTokens[1] >= 0
   /\ pTokens[1] <= TokenLimitThresholdInForce
   /\ NumToolResults > ToolResultThresholdInForce) =>
    pResult.strategies = ExpectedRemoveToolResult

\* C11 amended: the same for every total from 1 up to the high-water mark;
\* a total of 0 counts as unavailable.
C11_RemoveToolResultBelowMark ==
  (/\ pResult.computed
   /\ pTokens # <<>>
   /\ pTokens[1] >= 1
   /\ pTokens[1] <= TokenLimitThresholdInForce
   /\ NumToolResults > ToolResultThresholdInForce) =>
    pResult.strategies = ExpectedRemoveToolResult

C11_Witness ==
  /\ pResult.computed
  /\ pConfig.toolResultThreshold = <<>>
  /\ pTokens = <<DefaultTokenLimitThreshold>>
  /\ NumToolResults = DefaultToolResultThreshold + 1
  /\ pResult.strategies = ExpectedRemoveToolResult

\* C12 as stated: for every available total from 0 up to the high-water
\* mark, at most toolResultThreshold tool results and more than
\* toolCallThreshold tool calls, the policy returns exactly
\* [remove_tool_call_params(max(3, floor(threshold/2)))].
C12_RemoveToolCallParamsFromZero ==
  (/\ pResult.computed
   /\ pTokens # <<>>
   /\ pTokens[1] >= 0
   /\ pTokens[1] <= TokenLimitThresholdInForce
   /\ NumToolResults <= ToolResultThresholdInForce
   /\ NumToolCalls > ToolCallThresholdInForce) =>
    pResult.strategies = ExpectedRemoveToolCallParams

\* C12 amended: the same for every total from 1 up to the high-water mark.
C12_RemoveToolCallParamsBelowMark ==
  (/\ pResult.computed
   /\ pTokens # <<>>
   /\ pTokens[1] >= 1
   /\ pTokens[1] <= TokenLimitThresholdInForce
   /\ NumToolResults <= ToolResultThresholdInForce
   /\ NumToolCalls > ToolCallThresholdInForce) =>
    pResult.strategies = ExpectedRemoveToolCallParams

C12_Witness ==
  /\ pResult.computed
  /\ pConfig.toolCallThreshold = <<>>
  /\ pTokens = <<1>>
  /\ NumToolResults = DefaultToolResultThreshold - 1
  /\ NumToolCalls = DefaultToolCallThreshold + 1
  /\ pResult.strategies = ExpectedRemoveToolCallParams

\* C13: with at most toolResultThreshold tool results, at most
\* toolCallThreshold tool calls and a total not above the high-water mark
\* (the mark included), the policy returns the empty list.
C13_NoStrategyWithinThresholds ==
  (/\ pResult.computed
   /\ pTokens # <<>>
   /\ pTokens[1] <= TokenLimitThresholdInForce
   /\ NumToolResults <= ToolResultThresholdInForce
   /\ NumToolCalls <= ToolCallThresholdInForce) =>
    pResult.strategies = <<>>

C13_Witness ==
  /\ pResult.computed
  /\ pConfig.toolCallThreshold = <<>>
  /\ pTokens = <<DefaultTokenLimitThreshold>>
  /\ NumToolResults = DefaultToolResultThreshold
  /\ NumToolCalls = DefaultToolCallThreshold

\* C14: without token usage (null) the policy returns no strategy whatever
\* the history holds, and getAcontextTokenCounts returns null instead of
\* raising when the provider is not configured or its call fails.
C14_NoStrategyWithoutTokenUsage ==
  /\ (pResult.computed /\ pTokens = <<>>) => pResult.strategies = <<>>
  /\ pFetch.called =>
       /\ ~pFetch.raised
       /\ (~pFetch.client \/ pFetch.outcome = "rejects") => pTokens = <<>>

C14_Witness ==
  /\ pFetch.called
  /\ pFetch.client
  /\ pFetch.outcome = "rejects"
  /\ pResult.computed
  /\ NumToolResults > ToolResultThresholdInForce
  /\ NumToolCalls > ToolCallThresholdInForce


\* C15: storeMessageInAcontext never raises; it returns true exactly when
\* the provider accepted the write, and a call that returns false leaves
\* the log unchanged.
C15_StoreReturnsBooleanNeverRaises ==
  /\ [](/\ aStore.result # "raised"
        /\ (aStore.result = "true") <=> aStore.accepted)
  /\ [][aStore'.result = "false" => aLog' = aLog]_vars

C15_Witness ==
  /\ aStore.result = "false"
  /\ aClient
  /\ aLog # <<>>

\* C16: deciding strategies and reading under them write nothing: a step
\* that decides or reads leaves the log as it was, and a read without
\* strategies returns as many messages as the log holds.
C16_ReadsLeaveLogUntouched ==
  /\ [][(aView'.loaded \/ aStrategies'.computed) => aLog' = aLog]_vars
  /\ []((aView.loaded /\ aView.ok /\ aView.strategies = <<>>) =>
          Len(aView.items) = Len(aLog))

C16_Witness ==
  /\ aView.loaded
  /\ aView.ok
  /\ aView.strategies # <<>>
  /\ Len(aView.items) < Len(aLog)

\* C17: a multi-part message read back without strategies has the role it
\* was stored with and the same parts in the same order and number, image
\* parts still being image_url parts.
C17_MultiPartRoundTrip ==
  (aView.loaded /\ aView.ok /\ aView.strategies = <<>>) =>
    /\ Len(aView.items) = Len(aLog)
    /\ \A i \in 1..Len(aLog) :
         aLog[i].content.form = "array" =>
           /\ aView.items[i].role = aLog[i].role
           /\ aView.items[i].content.form = "array"
           /\ Len(aView.items[i].content.parts) = Len(aLog[i].content.parts)
           /\ \A j \in 1..Len(aLog[i].content.parts) :
                aView.items[i].content.parts[j] = aLog[i].content.parts[j]

C17_Witness ==
  /\ aView.loaded
  /\ aView.ok
  /\ aView.strategies = <<>>
  /\ Len(aView.items) = 2
  /\ aView.items[2].role = "user"
  /\ aView.items[2].content = [form |-> "array", parts |-> <<TextPart, ImagePart>>]


\* C18: however the resolve calls for one chat session interleave, at most
\* one durable session is created and all calls that return a session
\* return the same id.
C18_OneDurableSessionPerChatSession ==
  /\ rDurable <= 1
  /\ \A p, q \in 1..NumCalls :
       (/\ rCalls[p].pc = "returned" /\ rCalls[p].ret # <<>>
        /\ rCalls[q].pc = "returned" /\ rCalls[q].ret # <<>>) =>
         rCalls[p].ret = rCalls[q].ret

\* C19: after deleteAcontextSession the mapping row of that session is
\* gone, also when the provider is unconfigured or unavailable (a failure
\* of the row deletion itself set aside).
C19_DeleteRemovesMappingRow ==
  (lDelete.called /\ ~lDelete.dbError) =>
    ~(\E r \in lRows : r.id = lDelete.arg)

\* C20: a session id returned by createAcontextSessionDirectly has a
\* mapping row owned by the creating user.
C20_ReturnedSessionHasMappingRow ==
  (lCreate.called /\ lCreate.ret # <<>>) =>
    [id |-> lCreate.ret[1], user |-> lCreate.arg] \in lRows


ListAuthenticated == gReq.caller # 0 /\ ~gReq.authError

ListOwner == [id |-> gReq.id, user |-> gReq.caller] \in ListRows

\* C21: messages go only to the authenticated owner of the session: an
\* unauthenticated caller gets 401, an unknown or foreign session id gets
\* an empty list, and in both cases nothing is read at the provider.
C21_MessagesOnlyToOwner ==
  /\ (gReads # {} \/ gResp.messages # <<>>) => (ListAuthenticated /\ ListOwner)
  /\ gResp.messages # <<>> => gResp.messages = SessionLog(gReq.id)
  /\ (gPc = "done" /\ ~ListAuthenticated) => gResp.status = 401
  /\ (gPc = "done" /\ ListAuthenticated /\ ~ListOwner) =>
       (gResp.status = 200 /\ gResp.messages = <<>> /\ gResp.tokenCounts = <<>>)

C21_Witness ==
  /\ gPc = "done"
  /\ gReq.caller = 2
  /\ ~gReq.authError
  /\ ~gReq.queryError
  /\ gReq.id = 1
  /\ gResp.status = 200
  /\ gReads = {}


\* Place of a part in the order the claim states: the message text, then
\* images, then references to non-image attachments.
PartRank(part) ==
  IF part.type = "image_url" THEN 1 ELSE IF part.ref = 0 THEN 0 ELSE 2

\* C22: in a multi-part user message the message text comes first, then
\* all image parts, then all non-image attachment references.
C22_TextThenImagesThenReferences ==
  (uOut # <<>> /\ uOut[1].form = "array") =>
    \A i, j \in 1..Len(uOut[1].parts) :
      i < j => PartRank(uOut[1].parts[i]) <= PartRank(uOut[1].parts[j])


\* Registered tools named by some string entry of the allow-list, blanks
\* around the name ignored.
AllowedTools(list) ==
  {t \in 1..NumTools : \E i \in 1..Len(list) : list[i].isString /\ list[i].name = t}

SeqRange(seq) == {seq[i] : i \in 1..Len(seq)}

\* C23: the tools offered are registered tools: all of them without an
\* allow-list, exactly those named in the allow-list (after trimming) with
\* one, and none when tools are disabled.
C23_OfferedToolsAreAllowedRegisteredTools ==
  tOut # <<>> =>
    /\ SeqRange(tOut[1]) \subseteq 1..NumTools
    /\ \A i, j \in 1..Len(tOut[1]) : i < j => tOut[1][i] < tOut[1][j]
    /\ ~tIn.toolsEnabled => tOut[1] = <<>>
    /\ (tIn.toolsEnabled /\ tIn.enabledToolNames = <<>>) => tOut[1] = RegisteredTools
    /\ (tIn.toolsEnabled /\ tIn.enabledToolNames # <<>>) =>
         SeqRange(tOut[1]) = AllowedTools(tIn.enabledToolNames[1])

C23_Witness ==
  /\ tOut = <<(<<1>>)>>
  /\ tIn.toolsEnabled
  /\ tIn.enabledToolNames =
       <<(<<[isString |-> TRUE, name |-> 1, padded |-> TRUE],
            [isString |-> TRUE, name |-> NumTools + 1, padded |-> FALSE]>>)>>


\* C24: the list given to the model is one system message, then the loaded
\* history in stored order with roles and contents as stored, then the new
\* user message once, as the last element; what is stored for the user
\* message is the content of that last element.
C24_SystemThenHistoryThenUserMessage ==
  messages # <<>> =>
    /\ messages[1] = SystemMessage
    /\ \A i \in 2..Len(messages) : messages[i].role # "system"
    /\ Len(messages) = Len(existingMessages) + 2
    /\ existingMessages \in {<<>>, req.history}
    /\ \A i \in 1..Len(existingMessages) :
         /\ messages[i + 1].role = existingMessages[i].role
         /\ messages[i + 1].content = existingMessages[i].content
    /\ Last(messages) = [role |-> "user", content |-> UserContent(req.message, req.attachments)]
    /\ userStore = "ok" =>
         /\ TurnEntries("user") = {Len(req.history) + 1}
         /\ log[Len(req.history) + 1].content = Last(messages).content

C24_Witness ==
  /\ userStore = "ok"
  /\ Len(messages) = 4
  /\ messages[2].content.form = "array"
  /\ messages[4].content.form = "array"
  /\ modelInvoked


\* C25: however the getOrCreateUserSpaceId calls of one user interleave,
\* at most one Space is created and all calls that return a Space return
\* the same id.
C25_OneSpacePerUser ==
  /\ sSpaces <= 1
  /\ \A p, q \in 1..NumSpaceCalls :
       (/\ sCalls[p].pc = "returned" /\ sCalls[p].ret # <<>>
        /\ sCalls[q].pc = "returned" /\ sCalls[q].ret # <<>>) =>
         sCalls[p].ret = sCalls[q].ret


\* C26: every uploaded attachment is on the disk bound to the session of
\* its turn, never on a disk of another session or of none.
C26_UploadsLandOnSessionDisk ==
  \A u \in dUploads :
    /\ dDisks[u.disk] = u.session
    /\ dSess[u.session].diskId = <<u.disk>>


UserEarlier(i) ==
  \E j \in 1..(i - 1) : kLog[j] = [role |-> "user", turn |-> kLog[i].turn]

C28_InvalidQueryAlwaysFails ==
  (xRun.pc = "done" /\ QueryInvalid(xIn.query)) =>
    /\ xOut = SearchError("Query must be a non-empty string")
    /\ ~xRun.searched

\* C29: when the provider raised during a search with a valid query, the
\* call ends with a tool error carrying the underlying message and not
\* with a result; every result has count equal to its number of skills.
C29_ProviderFailureIsAToolError ==
  /\ (xRun.pc = "done" /\ xRun.raised # "") =>
       (xOut.kind = "error" /\ xOut.message = xRun.raised)
  /\ xOut.kind = "result" => xOut.count = Len(xOut.skills)


\* Input positions whose fetch gave an image, in input order.
FetchedPositions ==
  SelectSeq([i \in 1..Len(eRun.outcomes) |-> i], LAMBDA i : eRun.outcomes[i] = "image")

FailedPositions ==
  SelectSeq([i \in 1..Len(eRun.outcomes) |-> i], LAMBDA i : eRun.outcomes[i] # "image")

InputRejected ==
  Len(eIn) = 0 \/ \E i \in 1..Len(eIn) : eIn[i].kind # "pair"

\* C30: an empty input or one with an item lacking a string url and
\* filename is rejected with 400 before any fetch; otherwise the export has
\* one slide per fetched image in input order, the failed items are in
\* X-Errors, and slide count = input count - error count, whenever the
\* presentation itself could be written.
C30_ExportSlidesFollowInput ==
  eRun.pc = "done" =>
    /\ InputRejected => (eResp.status = 400 /\ eRun.outcomes = <<>>)
    /\ (~InputRejected /\ eRun.written) =>
         /\ eResp.status = 200
         /\ eResp.slides = FetchedPositions
         /\ eResp.xErrors = FailedPositions
         /\ Len(eResp.slides) = Len(eIn) - Len(eResp.xErrors)

====
